---- MODULE Spec2Model ----
(***************************************************************************)
(* Model of the change-ledger engine of vis-diff-trackshift:               *)
(*   services/backendClient.ts  (normalizeBox, the four change builders,   *)
(*     labelTimelineChanges, collectTimelineChanges, buildTimelineSummary, *)
(*     assembleAnalysisResult, analyzeWithBackend)                         *)
(*   hooks/useVisionProcessor   (processImages, reset)                     *)
(*                                                                         *)
(* Conventions.                                                            *)
(*  - An optional JSON field is a sequence of length <= 1: None is the     *)
(*    absent field (undefined / null), Some(v) the present one.            *)
(*  - Fractions of the job document (score, confidence, areaRatio,         *)
(*    probabilities) are integers in units of 1/10000, so that 0.85 is     *)
(*    8500, 0.008 is 80 and 0.02 is 200.  A summary's coverage is in units *)
(*    of 1/1000000 (0.004 is 4000), finer than the two decimals of a       *)
(*    percentage the code rounds it to.  SSIM values are in units of       *)
(*    1/1000 (they are only ever printed with toFixed(3)).                 *)
(*  - Pixel boxes are 4-tuples of integers; a normalised coordinate is the *)
(*    exact rational <<n, d>> (n / d), so a / width is <<a, width>>.       *)
(*  - The constant prose fields of a DetectedChange (interpretation,       *)
(*    performanceGain, specialistInsights, suggestedActions,               *)
(*    suggestedQuestions) do not depend on control flow and are left out.  *)
(***************************************************************************)
EXTENDS Integers, Sequences, FiniteSets, TLC

VARIABLES state, result, error, progress, statusText, pc, callDomain, job, analysis,
          orchestratorBase, artifact, comparisonRoot, resolved,
          calls, lastCommand

\* the state of the useVisionProcessor hook and of one processImages call
hookVars == <<state, result, error, progress, statusText, pc, callDomain, job, analysis>>
\* one use of utils/artifacts.ts: its configuration, the arguments and the outcome
urlVars == <<orchestratorBase, artifact, comparisonRoot, resolved>>

\* processImages calls that overlap: where each call stands, and the most
\* recent command the hook was given (a reset or the start of a call)
concVars == <<calls, lastCommand>>

vars == <<hookVars, urlVars, concVars>>

----------------------------------------------------------------------------
(* Optional values and JavaScript's falsy tests *)

None == <<>>
Some(v) == <<v>>
OrElse(o, d) == IF o = None THEN d ELSE o[1]

\* `x || alt` on an optional number: undefined and 0 are falsy
NumOr(o, alt) == IF o = None \/ o[1] = 0 THEN alt ELSE o[1]
\* `s || alt` on an optional string: undefined and "" are falsy
StrOr(o, alt) == IF o = None \/ o[1] = "" THEN alt ELSE o[1]

Min(a, b) == IF a < b THEN a ELSE b
Max(a, b) == IF a > b THEN a ELSE b

RECURSIVE Flatten(_)
Flatten(ss) == IF ss = <<>> THEN <<>> ELSE Head(ss) \o Flatten(Tail(ss))

\* String.prototype.includes
Includes(s, t) ==
  \E i \in 1..(Len(s) - Len(t) + 1) : SubSeq(s, i, i + Len(t) - 1) = t

\* String.prototype.startsWith
StartsWith(s, t) == Len(s) >= Len(t) /\ SubSeq(s, 1, Len(t)) = t

\* Number.prototype.toFixed(3) of a value given in thousandths
ToFixed3(m) ==
  LET frac == m % 1000
      pad == IF frac < 10 THEN "00" ELSE IF frac < 100 THEN "0" ELSE ""
  IN ToString(m \div 1000) \o "." \o pad \o ToString(frac)

----------------------------------------------------------------------------
(* backendClient.ts: constants *)

MASK_CONFIDENCE_THRESHOLD == 8500

----------------------------------------------------------------------------
(* backendClient.ts: normalizeBox *)

Rat(n, d) == <<n, d>>
ZeroBox == <<Rat(0, 1), Rat(0, 1), Rat(0, 1), Rat(0, 1)>>
FullBox == <<Rat(0, 1), Rat(0, 1), Rat(1, 1), Rat(1, 1)>>

\* mutant: the yxyx format is scaled without the axis swap
normalizeBoxNoSwap(box, imageSize, format) ==
  IF box = None THEN ZeroBox
  ELSE
    LET b == box[1]
        width == IF imageSize = None THEN 1 ELSE NumOr(Some(imageSize[1].width), 1)
        height == IF imageSize = None THEN 1 ELSE NumOr(Some(imageSize[1].height), 1)
    IN <<Rat(b[1], width), Rat(b[2], height), Rat(b[3], width), Rat(b[4], height)>>

normalizeBox(box, imageSize, format) ==
  IF box = None THEN ZeroBox
  ELSE
    LET b == box[1]
        width == IF imageSize = None THEN 1 ELSE NumOr(Some(imageSize[1].width), 1)
        height == IF imageSize = None THEN 1 ELSE NumOr(Some(imageSize[1].height), 1)
    IN IF format = "xyxy"
       THEN <<Rat(b[1], width), Rat(b[2], height), Rat(b[3], width), Rat(b[4], height)>>
       ELSE <<Rat(b[2], width), Rat(b[1], height), Rat(b[4], width), Rat(b[3], height)>>

----------------------------------------------------------------------------
(* String.prototype.toLowerCase (ASCII letters) *)

LowerChar(c) ==
  LET upper == "ABCDEFGHIJKLMNOPQRSTUVWXYZ"
      lower == "abcdefghijklmnopqrstuvwxyz"
      hits == {i \in 1..26 : SubSeq(upper, i, i) = c}
  IN IF hits = {} THEN c ELSE LET i == CHOOSE k \in hits : TRUE IN SubSeq(lower, i, i)

RECURSIVE ToLowerCase(_)
ToLowerCase(s) ==
  IF Len(s) = 0 THEN ""
  ELSE LowerChar(SubSeq(s, 1, 1)) \o ToLowerCase(SubSeq(s, 2, Len(s)))

----------------------------------------------------------------------------
(* backendClient.ts: createYoloChanges (object-diff builder) *)

\* mutant: severity is taken from the SSIM score, not from the changed flag
YoloChangeBySsim(pair, index, imageSize) ==
  LET changed == (pair.ssim # None /\ pair.ssim[1] < 900)
  IN [ id |-> "component-" \o ToString(index),
       description |-> StrOr(pair.class_name, "Component " \o ToString(index + 1)),
       box |-> normalizeBox(IF pair.box_shared = None THEN Some(<<0, 0, 0, 0>>)
                            ELSE pair.box_shared, imageSize, "xyxy"),
       changeType |-> "Structural",
       confidence |-> OrElse(pair.confidence, 5000),
       impact |-> IF changed THEN "High" ELSE "Low",
       criticality |-> IF changed THEN 7 ELSE 3,
       estimatedCost |-> IF changed THEN 5000 ELSE 0,
       redFlags |-> IF changed THEN << "SSIM delta " \o ToFixed3(pair.ssim[1]) >> ELSE <<>>,
       comparisonRef |-> None ]

YoloChange(pair, index, imageSize) ==
  LET changed == (pair.changed = Some(TRUE))
  IN [ id |-> "component-" \o ToString(index),
       description |-> StrOr(pair.class_name, "Component " \o ToString(index + 1)),
       box |-> normalizeBox(IF pair.box_shared = None THEN Some(<<0, 0, 0, 0>>)
                            ELSE pair.box_shared, imageSize, "xyxy"),
       changeType |-> "Structural",
       confidence |-> OrElse(pair.confidence, 5000),
       impact |-> IF changed THEN "High" ELSE "Low",
       criticality |-> IF changed THEN 7 ELSE 3,
       estimatedCost |-> IF changed THEN 5000 ELSE 0,
       redFlags |-> IF changed
                    THEN << "SSIM delta " \o
                            (IF pair.ssim = None THEN "N/A" ELSE ToFixed3(pair.ssim[1])) >>
                    ELSE <<>>,
       comparisonRef |-> None ]

createYoloChanges(pairs, imageSize) ==
  [i \in 1..Len(pairs) |-> YoloChange(pairs[i], i - 1, imageSize)]

----------------------------------------------------------------------------
(* backendClient.ts: createMaskChanges (mask/segmentation builder) *)

\* mutant: the gate excludes a score equal to the threshold
MaskKeepsStrict(det) == OrElse(det.score, 0) > MASK_CONFIDENCE_THRESHOLD

MaskKeeps(det) == OrElse(det.score, 0) >= MASK_CONFIDENCE_THRESHOLD

\* mutant: Math.round(score * 10) without the cap at 10
MaskCriticalityUncapped(score) == (score + 500) \div 1000

\* Math.min(10, Math.round(score * 10)) with score in units of 1/10000
MaskCriticality(score) == Min(10, (score + 500) \div 1000)

MaskChange(det, index, imageSize) ==
  [ id |-> "mask-" \o ToString(index),
    description |-> StrOr(det.class_name, "Detection " \o ToString(index + 1)),
    box |-> normalizeBox(det.bbox, imageSize, "yxyx"),
    changeType |-> "Surface",
    confidence |-> OrElse(det.score, 6000),
    impact |-> "Medium",
    criticality |-> MaskCriticality(OrElse(det.score, 6000)),
    estimatedCost |-> 2500,
    redFlags |-> IF NumOr(det.mask_area, 0) # 0
                 THEN << "Mask size " \o ToString(det.mask_area[1]) \o " px" >>
                 ELSE <<>>,
    comparisonRef |-> None ]

createMaskChanges(detections, imageSize) ==
  LET kept == SelectSeq(detections, MaskKeeps)
  IN [i \in 1..Len(kept) |-> MaskChange(kept[i], i - 1, imageSize)]

----------------------------------------------------------------------------
(* backendClient.ts: createPcbChanges (defect-region builder) *)

criticalDefects == <<"missing_hole", "mouse_bite", "open_circuit", "short", "spur", "spurious_copper">>
alwaysHighDefects == <<"open_circuit", "short", "spur", "spurious_copper">>

AnyTokenIn(tokens, label) == \E i \in 1..Len(tokens) : Includes(label, tokens[i])

\* mutant: the area thresholds are inclusive
AreaImpactInclusive(areaRatio) ==
  IF areaRatio >= 200 THEN "High" ELSE IF areaRatio >= 80 THEN "Medium" ELSE "Low"

AreaImpact(areaRatio) ==
  IF areaRatio > 200 THEN "High" ELSE IF areaRatio > 80 THEN "Medium" ELSE "Low"

\* mutant: a token outside the always-high list forces Medium whatever the area
PcbImpactForcedMedium(label, areaRatio) ==
  IF AnyTokenIn(criticalDefects, label)
  THEN IF AnyTokenIn(alwaysHighDefects, label) THEN "High" ELSE "Medium"
  ELSE AreaImpact(areaRatio)

PcbImpact(label, areaRatio) ==
  IF AnyTokenIn(criticalDefects, label)
  THEN IF AnyTokenIn(alwaysHighDefects, label) THEN "High"
       ELSE IF areaRatio > 200 THEN "High" ELSE "Medium"
  ELSE AreaImpact(areaRatio)

\* region.bboxNormalized || (region.bbox ? normalizeBox(region.bbox, imageSize) : fallbackBox)
RegionBox(region, imageSize) ==
  IF region.bboxNormalized # None THEN region.bboxNormalized[1]
  ELSE IF region.bbox # None THEN normalizeBox(region.bbox, imageSize, "xyxy")
  ELSE FullBox

\* `${(areaRatio * 100).toFixed(2)}% coverage` : hundredths of a percent are the 1/10000 units
PercentFixed2(bp) ==
  LET frac == bp % 100
  IN ToString(bp \div 100) \o "." \o (IF frac < 10 THEN "0" ELSE "") \o ToString(frac)

PcbChange(region, index, imageSize) ==
  LET areaRatio == OrElse(region.areaRatio, 0)
      label == ToLowerCase(StrOr(region.label, StrOr(region.id, "")))
      impact == PcbImpact(label, areaRatio)
      coverageLabel == IF areaRatio # 0 THEN PercentFixed2(areaRatio) \o "% coverage"
                       ELSE "Pixel delta detected"
  IN [ id |-> StrOr(region.id, "pcb-" \o ToString(index)),
       description |-> "RF-DETR-Seg region " \o ToString(index + 1),
       box |-> RegionBox(region, imageSize),
       changeType |-> "Surface",
       confidence |-> OrElse(region.confidence, Min(9500, 6000 + areaRatio * 5)),
       impact |-> impact,
       criticality |-> IF impact = "High" THEN 8 ELSE IF impact = "Medium" THEN 6 ELSE 3,
       estimatedCost |-> Max(1500, areaRatio * 5),
       redFlags |-> <<coverageLabel>> \o
                    (IF NumOr(region.pixelCount, 0) # 0
                     THEN <<ToString(region.pixelCount[1]) \o " px">> ELSE <<>>),
       comparisonRef |-> None ]

createPcbChanges(regions, imageSize) ==
  [i \in 1..Len(regions) |-> PcbChange(regions[i], i - 1, imageSize)]

----------------------------------------------------------------------------
(* backendClient.ts: createChangeformerChanges (structural-drift builder) *)

\* region.maxProbability ?? region.meanProbability ?? region.confidence ??
\* summary.globalMaxProbability ?? 0.6
ChangeformerConfidence(region, summary) ==
  IF region.maxProbability # None THEN region.maxProbability[1]
  ELSE IF region.meanProbability # None THEN region.meanProbability[1]
  ELSE IF region.confidence # None THEN region.confidence[1]
  ELSE OrElse(summary.globalMaxProbability, 6000)

ChangeformerRegionChange(region, index, summary, imageSize) ==
  LET areaRatio == OrElse(region.areaRatio, 0)
      impact == AreaImpact(areaRatio)
  IN [ id |-> StrOr(region.id, "changeformer-" \o ToString(index)),
       description |-> StrOr(region.label, "ChangeFormer region " \o ToString(index + 1)),
       box |-> RegionBox(region, imageSize),
       changeType |-> "Spatial",
       confidence |-> ChangeformerConfidence(region, summary),
       impact |-> impact,
       criticality |-> IF impact = "High" THEN 8 ELSE IF impact = "Medium" THEN 6 ELSE 4,
       estimatedCost |-> Max(3000, areaRatio * 6),
       redFlags |-> <<PercentFixed2(areaRatio) \o "% coverage">>,
       comparisonRef |-> None ]

\* A JavaScript number with at most two decimals, given in hundredths, as `${n}` prints it
NumberString2(h) ==
  LET frac == h % 100
  IN ToString(h \div 100) \o
     (IF frac = 0 THEN ""
      ELSE IF frac % 10 = 0 THEN "." \o ToString(frac \div 10)
      ELSE "." \o (IF frac < 10 THEN "0" ELSE "") \o ToString(frac))

\* Number((coverage * 100).toFixed(2)) in hundredths of a percent, coverage in millionths
CoveragePct(coverage) == (coverage + 50) \div 100

\* mutant: the aggregate is tiered with the region thresholds (2% and 0.8% of coverage)
ChangeformerAggregateRegionTiers(summary) ==
  LET coveragePct == CoveragePct(OrElse(summary.coverage, 0))
      tier == IF coveragePct > 200 THEN "High" ELSE IF coveragePct > 80 THEN "Medium" ELSE "Low"
  IN [ id |-> "changeformer-aggregate",
       description |-> "ChangeFormer coverage " \o NumberString2(coveragePct) \o "%",
       box |-> FullBox,
       changeType |-> "Spatial",
       confidence |-> OrElse(summary.globalMaxProbability, 6000),
       impact |-> tier,
       criticality |-> IF tier = "High" THEN 8 ELSE IF tier = "Medium" THEN 6 ELSE 4,
       estimatedCost |-> Max(2000, coveragePct * 8),
       redFlags |-> <<"Coverage " \o NumberString2(coveragePct) \o "%">>,
       comparisonRef |-> None ]

ChangeformerAggregate(summary) ==
  LET coveragePct == CoveragePct(OrElse(summary.coverage, 0))
  IN [ id |-> "changeformer-aggregate",
       description |-> "ChangeFormer coverage " \o NumberString2(coveragePct) \o "%",
       box |-> FullBox,
       changeType |-> "Spatial",
       confidence |-> OrElse(summary.globalMaxProbability, 6000),
       impact |-> IF coveragePct > 300 THEN "High"
                  ELSE IF coveragePct > 100 THEN "Medium" ELSE "Low",
       criticality |-> IF coveragePct > 300 THEN 8 ELSE IF coveragePct > 100 THEN 6 ELSE 4,
       estimatedCost |-> Max(2000, coveragePct * 8),
       redFlags |-> <<"Coverage " \o NumberString2(coveragePct) \o "%">>,
       comparisonRef |-> None ]

\* mutant: the aggregate is emitted after the regions as well
createChangeformerChangesBoth(summary, imageSize) ==
  IF summary = None THEN <<>>
  ELSE
    LET s == summary[1]
        baseRegions == OrElse(s.regions, <<>>)
    IN [i \in 1..Len(baseRegions) |-> ChangeformerRegionChange(baseRegions[i], i - 1, s, imageSize)]
       \o (IF OrElse(s.coverage, 0) <= 0 THEN <<>> ELSE <<ChangeformerAggregate(s)>>)

createChangeformerChanges(summary, imageSize) ==
  IF summary = None THEN <<>>
  ELSE
    LET s == summary[1]
        baseRegions == OrElse(s.regions, <<>>)
    IN IF Len(baseRegions) = 0
       THEN IF OrElse(s.coverage, 0) <= 0 THEN <<>> ELSE <<ChangeformerAggregate(s)>>
       ELSE [i \in 1..Len(baseRegions) |->
               ChangeformerRegionChange(baseRegions[i], i - 1, s, imageSize)]

----------------------------------------------------------------------------
(* backendClient.ts: formatComparisonLabel, labelTimelineChanges *)

\* mutant: consecutive mode names the predecessor of the after-frame, not the before-frame
formatComparisonLabelPredecessor(afterIndex, beforeIndex, mode) ==
  IF mode = "consecutive"
  THEN "Frame " \o ToString(afterIndex + 1) \o " vs Frame " \o ToString(afterIndex)
  ELSE "Frame " \o ToString(afterIndex + 1) \o " vs Baseline"

formatComparisonLabel(afterIndex, beforeIndex, mode) ==
  IF mode = "consecutive"
  THEN "Frame " \o ToString(afterIndex + 1) \o " vs Frame " \o ToString(beforeIndex + 1)
  ELSE "Frame " \o ToString(afterIndex + 1) \o " vs Baseline"

\* mutant: the id is keyed by the before-frame
LabelChangeByBefore(change, idx, afterIndex, beforeIndex, label, prefix) ==
  [change EXCEPT
     !.id = prefix \o "-f" \o ToString(beforeIndex) \o "-" \o ToString(idx),
     !.description = change.description \o " · " \o label,
     !.comparisonRef = Some([beforeIndex |-> beforeIndex, afterIndex |-> afterIndex,
                             label |-> label])]

LabelChange(change, idx, afterIndex, beforeIndex, label, prefix) ==
  [change EXCEPT
     !.id = prefix \o "-f" \o ToString(afterIndex) \o "-" \o ToString(idx),
     !.description = change.description \o " · " \o label,
     !.comparisonRef = Some([beforeIndex |-> beforeIndex, afterIndex |-> afterIndex,
                             label |-> label])]

labelTimelineChanges(baseChanges, afterIndex, beforeIndex, mode, prefix) ==
  LET label == formatComparisonLabel(afterIndex, beforeIndex, mode)
  IN [i \in 1..Len(baseChanges) |->
        LabelChange(baseChanges[i], i - 1, afterIndex, beforeIndex, label, prefix)]

----------------------------------------------------------------------------
(* backendClient.ts: optional chaining into a pipeline's stages *)

\* pipeline.<stage>?.summary
StageSummary(stage) == IF stage = None THEN None ELSE stage[1].summary
\* pipeline.<stage>?.imageSize
StageImageSize(stage) == IF stage = None THEN None ELSE stage[1].imageSize
\* pipeline.<stage>?.artifacts
StageArtifacts(stage) == IF stage = None THEN None ELSE stage[1].artifacts

\* object_diff?.report?.paired || object_diff?.summary?.paired   (an array, even empty, is truthy)
PairedOf(stage) ==
  LET report == IF stage = None THEN None ELSE stage[1].report
      fromReport == IF report = None THEN None ELSE report[1].paired
      summary == StageSummary(stage)
      fromSummary == IF summary = None THEN None ELSE summary[1].paired
  IN IF fromReport # None THEN fromReport ELSE fromSummary

\* mask_rcnn?.summary?.detections || []
DetectionsOf(stage) ==
  LET summary == StageSummary(stage)
  IN IF summary = None THEN <<>> ELSE OrElse(summary[1].detections, <<>>)

\* pcb_cd?.summary?.regions || []
RegionsOf(stage) ==
  LET summary == StageSummary(stage)
  IN IF summary = None THEN <<>> ELSE OrElse(summary[1].regions, <<>>)

----------------------------------------------------------------------------
(* backendClient.ts: collectTimelineChanges *)

EntryChanges(entry, mode) ==
  IF entry.pipeline = None THEN <<>>
  ELSE
    LET timelinePipeline == entry.pipeline[1]
        yoloPairs == OrElse(PairedOf(timelinePipeline.object_diff), <<>>)
        maskDetections == DetectionsOf(timelinePipeline.mask_rcnn)
        pcbRegions == RegionsOf(timelinePipeline.pcb_cd)
        changeformerSummary == StageSummary(timelinePipeline.changeformer_cd)
        pcbChanges ==
          labelTimelineChanges(
            createPcbChanges(pcbRegions, StageImageSize(timelinePipeline.pcb_cd)),
            entry.afterIndex, entry.beforeIndex, mode, "pcb")
        yoloChanges ==
          labelTimelineChanges(
            createYoloChanges(yoloPairs, StageImageSize(timelinePipeline.object_diff)),
            entry.afterIndex, entry.beforeIndex, mode, "RF-DETR-Seg")
        maskChanges ==
          labelTimelineChanges(
            createMaskChanges(maskDetections, StageImageSize(timelinePipeline.mask_rcnn)),
            entry.afterIndex, entry.beforeIndex, mode, "mask")
        changeformerChanges ==
          labelTimelineChanges(
            createChangeformerChanges(changeformerSummary,
                                      StageImageSize(timelinePipeline.changeformer_cd)),
            entry.afterIndex, entry.beforeIndex, mode, "changeformer")
    IN pcbChanges \o yoloChanges \o maskChanges \o changeformerChanges

collectTimelineChanges(j) ==
  IF j.timeline = None \/ Len(j.timeline[1]) = 0 THEN <<>>
  ELSE
    LET mode == OrElse(j.comparisonMode, "baseline")
        timeline == j.timeline[1]
    IN Flatten([i \in 1..Len(timeline) |-> EntryChanges(timeline[i], mode)])

----------------------------------------------------------------------------
(* backendClient.ts: summarizeComponentDiffs, buildTimelineSummary *)

\* Number(confidence.toFixed(3)) of a value in units of 1/10000
RoundToThousandth(c) == ((c + 5) \div 10) * 10

summarizeComponentDiffs(pairs) ==
  IF pairs = None \/ Len(pairs[1]) = 0 THEN None
  ELSE Some([i \in 1..Len(pairs[1]) |->
               LET pair == pairs[1][i]
               IN [ component |-> StrOr(pair.class_name, "component"),
                    ssim |-> pair.ssim,
                    confidence |-> IF pair.confidence = None THEN None
                                   ELSE Some(RoundToThousandth(pair.confidence[1])),
                    changed |-> (pair.changed = Some(TRUE)) ]])

TimelineFrame(frame) ==
  [ index |-> frame.index,
    label |-> "Frame " \o ToString(frame.index + 1),
    originalName |-> frame.originalName,
    path |-> frame.path ]

\* artifacts?.<key> of an optional artifact bundle
ArtifactOf(artifacts, key) == IF artifacts = None THEN None ELSE artifacts[1][key]

TimelineComparison(entry) ==
  LET pipeline == entry.pipeline
      stageOf(name) == IF pipeline = None THEN None ELSE pipeline[1][name]
      alignmentArtifacts == StageArtifacts(stageOf("alignment"))
      objectDiffArtifacts == StageArtifacts(stageOf("object_diff"))
      maskArtifacts == StageArtifacts(stageOf("mask_rcnn"))
      pcbArtifacts == StageArtifacts(stageOf("pcb_cd"))
      pcbSummary == StageSummary(stageOf("pcb_cd"))
      changeformerStageArtifacts == StageArtifacts(stageOf("changeformer_cd"))
      changeformerSummary == StageSummary(stageOf("changeformer_cd"))
      alignmentSummary == StageSummary(stageOf("alignment"))
      maskDetections == DetectionsOf(stageOf("mask_rcnn"))
      hasMaskOverlay ==
        /\ StrOr(ArtifactOf(maskArtifacts, "overlay"), "") # ""
        /\ \E i \in 1..Len(maskDetections) : MaskKeeps(maskDetections[i])
  IN [ beforeIndex |-> entry.beforeIndex,
       afterIndex |-> entry.afterIndex,
       comparisonRoot |-> entry.comparisonRoot,
       ssim |-> IF alignmentSummary = None THEN None ELSE alignmentSummary[1].ssim,
       alignmentArtifacts |->
         IF alignmentArtifacts = None THEN None
         ELSE Some([ overlay |-> alignmentArtifacts[1].overlay,
                     heatmap |-> alignmentArtifacts[1].heatmap ]),
       objectDiffArtifacts |->
         IF objectDiffArtifacts = None THEN None
         ELSE Some([ overlay |-> objectDiffArtifacts[1].overlay,
                     roiDir |-> objectDiffArtifacts[1].paired_roi_dir,
                     componentDiffs |-> summarizeComponentDiffs(PairedOf(stageOf("object_diff"))) ]),
       maskArtifacts |->
         IF hasMaskOverlay THEN Some([ overlay |-> maskArtifacts[1].overlay ]) ELSE None,
       pcbMaskArtifacts |->
         IF pcbArtifacts # None \/ pcbSummary # None
         THEN Some([ mask |-> ArtifactOf(pcbArtifacts, "mask"),
                     overlay |-> ArtifactOf(pcbArtifacts, "overlay"),
                     heatmap |-> ArtifactOf(pcbArtifacts, "heatmap"),
                     summaryPath |-> ArtifactOf(pcbArtifacts, "report"),
                     summary |-> pcbSummary ])
         ELSE None,
       changeformerArtifacts |->
         IF changeformerStageArtifacts # None \/ changeformerSummary # None
         THEN Some([ mask |-> ArtifactOf(changeformerStageArtifacts, "mask"),
                     overlay |-> ArtifactOf(changeformerStageArtifacts, "overlay"),
                     heatmap |-> ArtifactOf(changeformerStageArtifacts, "heatmap"),
                     summary |-> changeformerSummary ])
         ELSE None ]

buildTimelineSummary(j) ==
  LET jobFrames == OrElse(j.frames, <<>>)
      jobTimeline == OrElse(j.timeline, <<>>)
      frames == [i \in 1..Len(jobFrames) |-> TimelineFrame(jobFrames[i])]
      comparisons == [i \in 1..Len(jobTimeline) |-> TimelineComparison(jobTimeline[i])]
  IN IF Len(frames) = 0 /\ Len(comparisons) = 0 THEN None
     ELSE Some([ mode |-> OrElse(j.comparisonMode, "baseline"),
                 baselineIndex |-> OrElse(j.baselineIndex, 0),
                 frames |-> frames,
                 comparisons |-> comparisons ])

----------------------------------------------------------------------------
(* backendClient.ts: assembleAnalysisResult *)

EmptyPipeline ==
  [ alignment |-> None, object_diff |-> None, mask_rcnn |-> None,
    pcb_cd |-> None, changeformer_cd |-> None ]

\* Math.round(coverage * 1000) / 10 as `${n}` prints it (coverage in millionths)
CoveragePctString(coverage) ==
  LET tenths == (coverage + 500) \div 1000
  IN ToString(tenths \div 10) \o
     (IF tenths % 10 = 0 THEN "" ELSE "." \o ToString(tenths % 10))

fallbackChangesOf(j) ==
  LET pipeline == OrElse(j.pipeline, EmptyPipeline)
  IN createPcbChanges(RegionsOf(pipeline.pcb_cd), StageImageSize(pipeline.pcb_cd))
     \o createYoloChanges(OrElse(PairedOf(pipeline.object_diff), <<>>),
                          StageImageSize(pipeline.object_diff))
     \o createMaskChanges(DetectionsOf(pipeline.mask_rcnn), StageImageSize(pipeline.mask_rcnn))
     \o createChangeformerChanges(StageSummary(pipeline.changeformer_cd),
                                  StageImageSize(pipeline.changeformer_cd))

\* mutant: the job-level changes are appended to the timeline's
SelectChangesMixed(timelineChanges, fallbackChanges) == timelineChanges \o fallbackChanges

\* const changes = timelineChanges.length ? timelineChanges : fallbackChanges
SelectChanges(timelineChanges, fallbackChanges) ==
  IF Len(timelineChanges) # 0 THEN timelineChanges ELSE fallbackChanges

\* mutant: every change is counted, whatever its impact
CountAllChanges(changes) == Len(changes)

\* changes.filter((change) => change.impact === 'High').length
CountHigh(changes) == Cardinality({i \in 1..Len(changes) : changes[i].impact = "High"})

SummaryField(stage, key) ==
  LET summary == StageSummary(stage)
  IN IF summary = None THEN 0 ELSE OrElse(summary[1][key], 0)

assembleAnalysisResult(j, domain) ==
  LET pipeline == OrElse(j.pipeline, EmptyPipeline)
      fallbackMaskDetections == DetectionsOf(pipeline.mask_rcnn)
      timelineChanges == collectTimelineChanges(j)
      changes == SelectChanges(timelineChanges, fallbackChangesOf(j))
      hasMaskChanges ==
        IF Len(timelineChanges) # 0
        THEN \E i \in 1..Len(timelineChanges) : StartsWith(timelineChanges[i].id, "mask")
        ELSE Len(fallbackMaskDetections) > 0
      pcbRegionCount == SummaryField(pipeline.pcb_cd, "regionCount")
      pcbCoverage == SummaryField(pipeline.pcb_cd, "coverage")
      pcbCoveragePct == CoveragePctString(pcbCoverage)
      changeformerRegionCount == SummaryField(pipeline.changeformer_cd, "regionCount")
      changeformerCoverage == SummaryField(pipeline.changeformer_cd, "coverage")
      changeformerCoveragePct == CoveragePctString(changeformerCoverage)
      changedComponents == CountHigh(changes)
      recommendations ==
        (IF changedComponents > 0
         THEN <<"Prioritise inspection of " \o ToString(changedComponents)
                \o " component(s) flagged by SSIM/RF-DETR-Seg.">>
         ELSE <<"No high-impact structural deltas detected; continue baseline monitoring.">>)
        \o (IF pcbRegionCount # 0
            THEN <<"Review RF-DETR-Seg manufacturing mask (~" \o pcbCoveragePct
                   \o "% coverage) before releasing to Gemini.">>
            ELSE IF pcbCoverage > 0
            THEN <<"RF-DETR-Seg detected low-level PCB drift (~" \o pcbCoveragePct
                   \o "% coverage); spot-check the suspect zones.">>
            ELSE <<>>)
        \o (IF changeformerRegionCount # 0
            THEN <<"Inspect " \o ToString(changeformerRegionCount)
                   \o " ChangeFormer structural region(s) before clearing infrastructure alert.">>
            ELSE IF changeformerCoverage > 10000
            THEN <<"Review ChangeFormer heatmap (~" \o changeformerCoveragePct
                   \o "% coverage) to localise infrastructure stress.">>
            ELSE <<>>)
        \o (IF hasMaskChanges
            THEN <<"Review Mask R-CNN overlay for precise damage contours.">>
            ELSE <<>>)
        \o <<"Use backend artifacts for engineering deep dives or export packages.">>
      summary ==
        IF domain = "Manufacturing"
        THEN IF pcbRegionCount > 0
             THEN "RF-DETR-Seg flagged " \o ToString(pcbRegionCount) \o " manufacturing defect"
                  \o (IF pcbRegionCount > 1 THEN "s" ELSE "")
                  \o " (~" \o pcbCoveragePct \o "% coverage)."
             ELSE IF pcbCoverage > 0
             THEN "RF-DETR-Seg detected ~" \o pcbCoveragePct
                  \o "% low-level PCB drift without discrete regions."
             ELSE "RF-DETR-Seg reports no manufacturing anomalies versus baseline."
        ELSE IF domain = "Infrastructure"
        THEN IF changeformerRegionCount > 0
             THEN "ChangeFormer highlighted " \o ToString(changeformerRegionCount)
                  \o " infrastructure drift region"
                  \o (IF changeformerRegionCount > 1 THEN "s" ELSE "") \o "."
             ELSE IF changeformerCoverage > 0
             THEN "ChangeFormer heatmap shows ~" \o changeformerCoveragePct
                  \o "% diffuse drift; monitor the span."
             ELSE "ChangeFormer reports no structural drift versus baseline."
        ELSE IF changedComponents # 0
        THEN "Detected " \o ToString(changedComponents) \o " structural changes in "
             \o domain \o " mode."
        ELSE "No major deltas found for " \o domain
             \o " mode. Alignment + SSIM agree with baseline."
  IN [ summary |-> summary,
       changes |-> changes,
       recommendations |-> recommendations,
       isDemoMode |-> FALSE,
       jobId |-> j.jobId,
       timeline |-> buildTimelineSummary(j),
       llmChanges |-> None ]

----------------------------------------------------------------------------
(* TypeErrors.  Reading a property of an absent value (`o.x`, or the         *)
(* destructuring `[a, b, c, d] = o`) throws; `o?.x` and `o || d` do not.     *)
(* Each predicate follows its function's control flow: an early return ends  *)
(* the function before the read, otherwise the read is reached.              *)

ReadThrows(o) == o = None

\* mutant: normalizeBox without its `if (!box)` guard
normalizeBoxUnguardedThrows(box) == ReadThrows(box)

\* normalizeBox: `if (!box) return [0, 0, 0, 0]` precedes the destructuring of box
normalizeBoxThrows(box) == IF box = None THEN FALSE ELSE ReadThrows(box)

\* createMaskChanges: normalizeBox(det.bbox, ...) for every detection that passes the filter
createMaskChangesThrows(detections) ==
  \E i \in 1..Len(detections) :
    MaskKeeps(detections[i]) /\ normalizeBoxThrows(detections[i].bbox)

\* createChangeformerChanges: `if (!summary) return []` precedes summary.regions
createChangeformerChangesThrows(summary) ==
  IF summary = None THEN FALSE ELSE ReadThrows(summary)

\* the four builders applied to one pipeline (createYoloChanges and createPcbChanges
\* default every field they read)
BuildersThrow(pipeline) ==
  \/ createMaskChangesThrows(DetectionsOf(pipeline.mask_rcnn))
  \/ createChangeformerChangesThrows(StageSummary(pipeline.changeformer_cd))

\* collectTimelineChanges' callback: `if (!timelinePipeline) return []` precedes
\* timelinePipeline.object_diff
EntryChangesThrows(entry) ==
  IF entry.pipeline = None THEN FALSE
  ELSE ReadThrows(entry.pipeline) \/ BuildersThrow(entry.pipeline[1])

\* collectTimelineChanges: `if (!job.timeline?.length) return []` precedes job.timeline.flatMap
collectTimelineChangesThrows(j) ==
  IF j.timeline = None \/ Len(j.timeline[1]) = 0 THEN FALSE
  ELSE ReadThrows(j.timeline)
       \/ \E i \in 1..Len(j.timeline[1]) : EntryChangesThrows(j.timeline[1][i])

\* assembleAnalysisResult: `job.pipeline || {}`; the fallback builders always run;
\* buildTimelineSummary reads through `?.` only
assembleAnalysisResultThrows(j) ==
  \/ collectTimelineChangesThrows(j)
  \/ BuildersThrow(OrElse(j.pipeline, EmptyPipeline))

----------------------------------------------------------------------------
(* Bounds of the model *)

\* longest job.timeline enumerated with arbitrary index pairs
MaxPairs == 2
\* largest frame index a timeline entry may name
MaxFrameIndex == 2
\* longest list of mask detections enumerated over all scores
MaxDetections == 2

----------------------------------------------------------------------------
(* Job documents: the JSON the orchestrator answers POST /api/jobs with     *)
(* (interface BackendJobResponse and the stage interfaces)                  *)

Stage(summary, report, artifacts, imageSize) ==
  [ summary |-> summary, report |-> report, artifacts |-> artifacts, imageSize |-> imageSize ]

Artifacts(overlay) ==
  [ overlay |-> overlay, heatmap |-> None, mask |-> None, report |-> None,
    paired_roi_dir |-> None ]

ImageSize(w, h) == [ width |-> w, height |-> h ]

Pipe(alignment, objectDiff, mask, pcb, changeformer) ==
  [ alignment |-> alignment, object_diff |-> objectDiff, mask_rcnn |-> mask,
    pcb_cd |-> pcb, changeformer_cd |-> changeformer ]

YoloPair(name, box, changed, ssim, confidence) ==
  [ class_name |-> name, box_shared |-> box, changed |-> changed, ssim |-> ssim,
    confidence |-> confidence ]

MaskDetection(name, bbox, score, area) ==
  [ class_id |-> 1, class_name |-> name, bbox |-> bbox, score |-> score, mask_area |-> area ]

Region(id, label, bbox, bboxNormalized, areaRatio) ==
  [ id |-> id, label |-> label, bbox |-> bbox, bboxNormalized |-> bboxNormalized,
    areaRatio |-> areaRatio, pixelCount |-> None, confidence |-> None,
    meanProbability |-> None, maxProbability |-> None ]

RegionSummary(regions, regionCount, coverage) ==
  [ regions |-> regions, regionCount |-> regionCount, coverage |-> coverage,
    globalMeanProbability |-> None, globalMaxProbability |-> None ]

Frame(i) == [ index |-> i, path |-> None, originalName |-> None ]
FramesUpTo(n) == [i \in 1..n |-> Frame(i - 1)]

Entry(beforeIndex, afterIndex, pipeline) ==
  [ beforeIndex |-> beforeIndex, afterIndex |-> afterIndex,
    comparisonRoot |-> Some("/data/jobs/job-42/timeline/frame_0" \o ToString(afterIndex)),
    pipeline |-> pipeline ]

JobDoc(status, mode, frames, timeline, pipeline, err) ==
  [ jobId |-> "job-42", status |-> status, comparisonMode |-> mode,
    baselineIndex |-> Some(0), frames |-> frames, timeline |-> timeline,
    pipeline |-> pipeline, error |-> err ]

\* sequences of length 0..n over the set S
SeqsUpTo(S, n) == UNION {[1..k -> S] : k \in 0..n}

PairChanged == YoloPair(Some("front_wing"), Some(<<10, 20, 50, 80>>), Some(TRUE), Some(612), Some(9100))
PairStable == YoloPair(None, None, Some(FALSE), Some(987), None)

DetHigh == MaskDetection(Some("scratch"), Some(<<20, 10, 80, 50>>), Some(9000), Some(420))
DetLow == MaskDetection(Some("dent"), Some(<<5, 5, 30, 30>>), Some(5000), None)

YoloStage(pairs) ==
  Some(Stage(None, Some([paired |-> Some(pairs)]), Some(Artifacts(Some("stages/object_diff/overlay.png"))),
             Some(ImageSize(100, 200))))
MaskStage(detections) ==
  Some(Stage(Some([detections |-> Some(detections)]), None,
             Some(Artifacts(Some("stages/mask_rcnn/overlay.png"))), Some(ImageSize(100, 200))))
PcbStage(regions) ==
  Some(Stage(Some(RegionSummary(Some(regions), Some(Len(regions)), Some(15000))), None,
             Some(Artifacts(Some("stages/pcb_cd/overlay.png"))), Some(ImageSize(100, 200))))
ChangeformerStage(regions, coverage) ==
  Some(Stage(Some(RegionSummary(regions, None, coverage)), None, None, Some(ImageSize(100, 200))))
AlignmentStage ==
  Some(Stage(Some([ssim |-> Some(912)]), None, Some(Artifacts(Some("stages/alignment/overlay.png"))),
             None))
\* a stage that ran but left no summary, report, artifacts or imageSize
BareStage == Some(Stage(None, None, None, None))

(* Family 1: timeline topology.  Every sequence of at most MaxPairs ordered   *)
(* pairs of distinct frame indices, under each comparison mode, with a full, *)
(* a short and no frames list, with and without a job-level pipeline.  The   *)
(* pairs carry no pipeline, or all carry object-diff output, or only the     *)
(* last one does.                                                            *)
IndexPairs == {p \in (0..MaxFrameIndex) \X (0..MaxFrameIndex) : p[1] # p[2]}

ObjectDiffPipeline ==
  Some(Pipe(AlignmentStage, YoloStage(<<PairStable, PairChanged>>), None, None, None))

TopologyPipeline(pattern, i, n) ==
  IF pattern = "all" \/ (pattern = "last" /\ i = n) THEN ObjectDiffPipeline ELSE None

TopologyTimelines ==
  {None} \cup
  {Some([i \in 1..Len(ps) |-> Entry(ps[i][1], ps[i][2], TopologyPipeline(pattern, i, Len(ps)))]) :
     ps \in SeqsUpTo(IndexPairs, MaxPairs), pattern \in {"none", "all", "last"}}

JobLevelPipeline ==
  Some(Pipe(None, None, MaskStage(<<DetHigh>>),
            PcbStage(<<Region(None, Some("scratch"), Some(<<10, 10, 40, 40>>), None, Some(100))>>),
            None))

\* comparison mode, frames list and job-level pipeline that accompany each timeline
TopologyShapes ==
  { <<Some("consecutive"), Some(FramesUpTo(MaxFrameIndex + 1)), None>>,
    <<Some("baseline"), Some(FramesUpTo(2)), JobLevelPipeline>>,
    <<None, None, JobLevelPipeline>> }

TopologyJobs ==
  {JobDoc("completed", sh[1], sh[2], t, sh[3], None) :
     sh \in TopologyShapes, t \in TopologyTimelines}

(* Family 2: which detector stages a pipeline carries.  Each of the four     *)
(* stages is absent, bare, or carries records; the pipeline sits either in   *)
(* the single timeline pair (0,1) or at job level only.                      *)
YoloStageOptions ==
  { None, BareStage, YoloStage(<<PairChanged>>),
    Some(Stage(Some([paired |-> Some(<<PairStable, PairChanged>>)]), None, None, None)) }

MaskStageOptions ==
  { None, BareStage, MaskStage(<<DetLow>>), MaskStage(<<DetLow, DetHigh>>),
    MaskStage(<<DetHigh, DetHigh>>) }

PcbStageOptions ==
  { None, BareStage,
    PcbStage(<<Region(Some("region-0"), Some("short"), Some(<<10, 10, 40, 40>>), None, Some(50))>>),
    PcbStage(<<Region(None, None, None, Some(<<Rat(1, 4), Rat(1, 4), Rat(1, 2), Rat(1, 2)>>), Some(250)),
               Region(Some("region-1"), Some("scratch"), None, None, None)>>) }

ChangeformerStageOptions ==
  { None, BareStage,
    ChangeformerStage(Some(<<>>), Some(4000)),
    ChangeformerStage(None, Some(0)),
    ChangeformerStage(Some(<<Region(Some("region-0"), Some("deck"), Some(<<0, 0, 50, 100>>), None, Some(90)),
                              Region(None, None, None, None, Some(300))>>), Some(39000)) }

DetectorPipelines ==
  {Pipe(None, od, mk, pcb, cf) :
     od \in YoloStageOptions, mk \in MaskStageOptions,
     pcb \in PcbStageOptions, cf \in ChangeformerStageOptions}

DetectorJobs ==
  {JobDoc("completed", Some("baseline"), Some(FramesUpTo(2)),
          Some(<<Entry(0, 1, Some(pl))>>), None, None) : pl \in DetectorPipelines}
  \cup
  {JobDoc("completed", Some("baseline"), Some(FramesUpTo(2)), None, Some(pl), None) :
     pl \in DetectorPipelines}

(* Family 3: boxes.  One record per detector with every box shape and every  *)
(* image size, in the timeline pair (0,1) or at job level.                   *)
PixelBoxes == {None, Some(<<0, 0, 0, 0>>), Some(<<10, 20, 50, 80>>), Some(<<10, 20, 150, 80>>)}
NormalizedBoxes ==
  {None, Some(<<Rat(1, 4), Rat(1, 4), Rat(1, 2), Rat(1, 2)>>),
   Some(<<Rat(1, 4), Rat(1, 4), Rat(5, 4), Rat(1, 2)>>)}
ImageSizes == {None, Some(ImageSize(100, 200)), Some(ImageSize(0, 0))}

BoxPipelines ==
  {Pipe(None, Some(Stage(None, Some([paired |-> Some(<<YoloPair(None, b, Some(TRUE), None, None)>>)]),
                         None, sz)), None, None, None) : b \in PixelBoxes, sz \in ImageSizes}
  \cup
  {Pipe(None, None, Some(Stage(Some([detections |-> Some(<<MaskDetection(None, b, Some(9000), None)>>)]),
                               None, None, sz)), None, None) : b \in PixelBoxes, sz \in ImageSizes}
  \cup
  {Pipe(None, None, None,
        Some(Stage(Some(RegionSummary(Some(<<Region(None, None, b, nb, None)>>), Some(1), None)),
                   None, None, sz)), None) :
     b \in PixelBoxes, nb \in NormalizedBoxes, sz \in ImageSizes}
  \cup
  {Pipe(None, None, None, None,
        Some(Stage(Some(RegionSummary(Some(<<Region(None, None, b, nb, None)>>), Some(1), None)),
                   None, None, sz))) :
     b \in PixelBoxes, nb \in NormalizedBoxes, sz \in ImageSizes}

BoxJobs ==
  {JobDoc("completed", Some("baseline"), Some(FramesUpTo(2)),
          Some(<<Entry(0, 1, Some(pl))>>), None, None) : pl \in BoxPipelines}
  \cup
  {JobDoc("completed", Some("baseline"), Some(FramesUpTo(2)), None, Some(pl), None) :
     pl \in BoxPipelines}

(* Family 4: mask scores.  Every list of at most MaxDetections detections    *)
(* over the scores around the 0.85 gate, a missing score and a score above   *)
(* 1 included.                                                               *)
Scores == {None, Some(0), Some(8499), Some(8500), Some(10000), Some(12000)}

ScoreDetections == {MaskDetection(None, Some(<<20, 10, 80, 50>>), sc, None) : sc \in Scores}

ScoreJobs ==
  {JobDoc("completed", Some("consecutive"), Some(FramesUpTo(2)),
          Some(<<Entry(0, 1, Some(Pipe(None, None, MaskStage(ds), None, None)))>>), None, None) :
     ds \in SeqsUpTo(ScoreDetections, MaxDetections)}
  \cup
  {JobDoc("completed", Some("consecutive"), Some(FramesUpTo(2)), None,
          Some(Pipe(None, None, MaskStage(ds), None, None)), None) :
     ds \in SeqsUpTo(ScoreDetections, MaxDetections)}

(* Family 5: jobs that did not complete, with and without an error message;  *)
(* they still carry detector output that would yield changes.                *)
IncompleteJobs ==
  {JobDoc(st, Some("baseline"), Some(FramesUpTo(2)),
          Some(<<Entry(0, 1, Some(Pipe(None, YoloStage(<<PairChanged>>), None, None, None)))>>),
          JobLevelPipeline, err) :
     st \in {"failed", "running", "queued"},
     err \in {None, Some([message |-> None]), Some([message |-> Some("mask_rcnn stage crashed")])}}

(* Family 6: the three-frame consecutive job.  Pair (0,1) reports zero, one  *)
(* or two unchanged components, pair (1,2) one changed component, alone or   *)
(* after an unchanged one.                                                   *)
ScenarioJobs ==
  {JobDoc("completed", Some("consecutive"), Some(FramesUpTo(3)),
          Some(<<Entry(0, 1, Some(Pipe(AlignmentStage, YoloStage(first), None, None, None))),
                 Entry(1, 2, Some(Pipe(AlignmentStage, YoloStage(second), None, None, None)))>>),
          None, None) :
     first \in SeqsUpTo({PairStable}, 2),
     second \in {<<PairChanged>>, <<PairStable, PairChanged>>}}

\* a job with one timeline pair (0,1) carrying the pipeline, and one carrying it at job level
OnePairOrJobLevel(pl) ==
  { JobDoc("completed", Some("baseline"), Some(FramesUpTo(2)), Some(<<Entry(0, 1, Some(pl))>>),
           None, None),
    JobDoc("completed", Some("baseline"), Some(FramesUpTo(2)), None, Some(pl), None) }

(* Family 7: object-diff severity.  One paired component with every changed  *)
(* flag, SSIM and confidence.                                                *)
SeverityPairs ==
  {YoloPair(Some("sidepod"), Some(<<10, 20, 50, 80>>), ch, ss, cf) :
     ch \in {None, Some(FALSE), Some(TRUE)},
     ss \in {None, Some(400), Some(987)},
     cf \in {None, Some(3000), Some(9900)}}

SeverityJobs ==
  UNION {OnePairOrJobLevel(Pipe(None, YoloStage(<<p>>), None, None, None)) : p \in SeverityPairs}

(* Family 8: defect-region impact.  One region with every kind of label (or  *)
(* an id standing in for the label) and the area ratios around 0.008 and     *)
(* 0.02, a missing one included.                                             *)
RegionNames ==
  { <<None, None>>, <<None, Some("scratch")>>, <<None, Some("Short")>>,
    <<None, Some("mouse_bite")>>, <<None, Some("Missing_Hole")>>,
    <<Some("open_circuit-3"), None>> }

AreaRatios == {None, Some(10), Some(80), Some(81), Some(100), Some(200), Some(201), Some(300)}

ImpactRegions ==
  {Region(nm[1], nm[2], Some(<<10, 10, 40, 40>>), None, ar) : nm \in RegionNames, ar \in AreaRatios}

ImpactJobs ==
  UNION {OnePairOrJobLevel(Pipe(None, None, None, PcbStage(<<r>>), None)) : r \in ImpactRegions}

(* Family 9: structural drift.  A summary with no region list, an empty one, *)
(* one region or two, and the coverages around 0, 1% and 3%, some of them    *)
(* finer than a hundredth of a percent.                                      *)
DriftRegionLists ==
  { None, Some(<<>>),
    Some(<<Region(None, Some("deck"), Some(<<0, 0, 50, 100>>), None, Some(90))>>),
    Some(<<Region(None, Some("deck"), Some(<<0, 0, 50, 100>>), None, Some(90)),
           Region(None, None, None, None, Some(300))>>) }

Coverages ==
  { None, Some(-4000), Some(0), Some(4000), Some(10000), Some(10040), Some(10100),
    Some(30000), Some(30040), Some(30100) }

DriftJobs ==
  UNION {OnePairOrJobLevel(Pipe(None, None, None, None, ChangeformerStage(rs, cov))) :
           rs \in DriftRegionLists, cov \in Coverages}

(* Family 10: a three-frame consecutive job whose top-level pipeline is the   *)
(* result of its most recent pair, as the orchestrator's README describes.   *)
(* Each pair found one defect region, one drift region, or nothing.          *)
PairResults ==
  { Pipe(None, None, None, PcbStage(<<>>), None),
    Pipe(None, None, None,
         PcbStage(<<Region(None, Some("scratch"), Some(<<10, 10, 40, 40>>), None, Some(100))>>),
         None),
    Pipe(None, None, None, None,
         Some(Stage(Some(RegionSummary(Some(<<>>), Some(0), Some(0))), None, None,
                    Some(ImageSize(100, 200))))),
    Pipe(None, None, None, None,
         Some(Stage(Some(RegionSummary(
                      Some(<<Region(None, Some("deck"), Some(<<0, 0, 50, 100>>), None, Some(90))>>),
                      Some(1), Some(20000))),
                    None, None, Some(ImageSize(100, 200))))) }

HistoryJobs ==
  {JobDoc("completed", Some("consecutive"), Some(FramesUpTo(3)),
          Some(<<Entry(0, 1, Some(earlier)), Entry(1, 2, Some(latest))>>),
          Some(latest), None) :
     earlier \in PairResults, latest \in PairResults}

\* The documents the orchestrator may answer with, per domain.  The timeline
\* topology family is offered to F1 jobs, the others to every backend domain.
JobDocsFor(domain) ==
  (IF domain = "F1" THEN TopologyJobs ELSE {})
  \cup DetectorJobs \cup BoxJobs \cup ScoreJobs \cup IncompleteJobs
  \cup ScenarioJobs \cup SeverityJobs \cup ImpactJobs \cup DriftJobs \cup HistoryJobs

----------------------------------------------------------------------------
(* Inputs of the hook other than the job document *)

\* imageFiles.length: the code only tests it against 2
ImageCounts == {1, 2}

Domains == {"F1", "Manufacturing", "Infrastructure", "QA"}

shouldUseBackend(domain) == domain \in {"F1", "Manufacturing", "Infrastructure"}

\* what analyzeImagesWithGemini may resolve with
GeminiReports ==
  { [ summary |-> "Gemini inspection report", recommendations |-> <<"Re-torque the endplate.">>,
      changes |-> <<>> ],
    [ summary |-> "Gemini found one change", recommendations |-> <<>>,
      changes |-> << [ id |-> "llm-1", description |-> "Hairline crack", box |-> FullBox,
                       changeType |-> "Surface", confidence |-> 7000, impact |-> "High",
                       criticality |-> 9, estimatedCost |-> 12000, redFlags |-> <<>>,
                       comparisonRef |-> None ] >> ] }

\* what a rejected promise may carry: an Error with a message, or a non-Error value
Rejections ==
  { [ isError |-> TRUE, message |-> "Failed to fetch" ],
    [ isError |-> TRUE, message |-> "API_KEY_ERROR: key missing" ],
    [ isError |-> TRUE, message |-> "quota exhausted" ],
    [ isError |-> FALSE, message |-> "" ] }

\* bodies of a non-ok HTTP response
ErrorTexts == {"", "413 payload too large"}

----------------------------------------------------------------------------
(* useVisionProcessor: parseGeminiError (the branches plain messages reach) *)

parseGeminiError(e) ==
  IF e.isError
  THEN IF Includes(ToLowerCase(e.message), "failed to fetch")
       THEN "Network connection failed. Please check your internet connection and try again."
       ELSE IF StartsWith(e.message, "API_KEY_ERROR:")
       THEN SubSeq(e.message, Len("API_KEY_ERROR: ") + 1, Len(e.message))
       ELSE e.message
  ELSE "An unexpected error occurred. Please check the console for details."

----------------------------------------------------------------------------
(* useVisionProcessor: the hook's state and one processImages call         *)
(*   pc is the await the call in flight is suspended at ("idle": none).    *)
(*   job is the document response.json() resolved with in the last call,   *)
(*   analysis the value analyzeWithBackend returned (analysisResult); both *)
(*   are locals of the call, forgotten when a new call starts or on reset. *)
(* In Spec a call starts only when none is in flight.  The progress        *)
(* callbacks issued from inside analyzeImagesWithGemini are not modelled.  *)

HookInit ==
  /\ state = "IDLE"
  /\ result = None
  /\ error = None
  /\ progress = 0
  /\ statusText = ""
  /\ pc = "idle"
  /\ callDomain = "F1"
  /\ job = None
  /\ analysis = None

\* no artifact reference has been resolved
NotCalled == [called |-> FALSE, threw |-> FALSE, url |-> None, use |-> "none"]

UrlIdle ==
  /\ orchestratorBase = "http://localhost:8000"
  /\ artifact = None
  /\ comparisonRoot = None
  /\ resolved = NotCalled

\* the number of processImages calls that may overlap
MaxCalls == 2

\* no call was made and no command given
ConcIdle ==
  /\ calls = [i \in 1..MaxCalls |-> [pc |-> "unstarted", domain |-> "F1"]]
  /\ lastCommand = [kind |-> "none", call |-> 0]

Init ==
  /\ HookInit
  /\ UrlIdle
  /\ ConcIdle

\* the catch block of processImages' backend path
BackendFailure(message) ==
  /\ error' = Some(message)
  /\ state' = "ERROR"
  /\ progress' = 0
  /\ statusText' = ""
  /\ pc' = "idle"

\* processImages called with fewer than two images: only the error is set
ProcessTooFewImages ==
  /\ pc = "idle"
  /\ \E n \in ImageCounts :
       /\ n < 2
       /\ error' = Some("At least two images are required for standard analysis.")
  /\ job' = None
  /\ analysis' = None
  /\ UNCHANGED <<state, result, progress, statusText, pc, callDomain>>
  /\ UNCHANGED urlVars
  /\ UNCHANGED concVars

\* processImages for a Gemini-only domain, up to its await
ProcessGeminiOnly ==
  /\ pc = "idle"
  /\ \E n \in ImageCounts, domain \in Domains :
       /\ n >= 2
       /\ ~shouldUseBackend(domain)
       /\ callDomain' = domain
       /\ statusText' = "Routing frames to Gemini-only analysis for " \o domain \o "..."
  /\ result' = None
  /\ error' = None
  /\ state' = "SUMMARIZING"
  /\ progress' = 5
  /\ pc' = "awaitGeminiOnly"
  /\ job' = None
  /\ analysis' = None
  /\ UNCHANGED urlVars
  /\ UNCHANGED concVars

GeminiOnlyResolves ==
  /\ pc = "awaitGeminiOnly"
  /\ \E report \in GeminiReports :
       result' = Some([ summary |-> report.summary, changes |-> report.changes,
                        recommendations |-> report.recommendations, isDemoMode |-> FALSE,
                        jobId |-> "", timeline |-> None, llmChanges |-> None ])
  /\ progress' = 100
  /\ statusText' = "Done"
  /\ state' = "DONE"
  /\ pc' = "idle"
  /\ UNCHANGED <<error, callDomain, job, analysis>>
  /\ UNCHANGED urlVars
  /\ UNCHANGED concVars

GeminiOnlyRejects ==
  /\ pc = "awaitGeminiOnly"
  /\ \E e \in Rejections : error' = Some(parseGeminiError(e))
  /\ state' = "ERROR"
  /\ progress' = 0
  /\ statusText' = ""
  /\ pc' = "idle"
  /\ UNCHANGED <<result, callDomain, job, analysis>>
  /\ UNCHANGED urlVars
  /\ UNCHANGED concVars

\* processImages for a backend domain, through analyzeWithBackend up to `await fetch`
ProcessBackend ==
  /\ pc = "idle"
  /\ \E n \in ImageCounts, domain \in Domains :
       /\ n >= 2
       /\ shouldUseBackend(domain)
       /\ callDomain' = domain
  /\ result' = None
  /\ error' = None
  /\ state' = "ALIGNING"
  /\ progress' = 15
  /\ statusText' = "Uploading ordered frames to backend orchestrator..."
  /\ pc' = "awaitFetch"
  /\ job' = None
  /\ analysis' = None
  /\ UNCHANGED urlVars
  /\ UNCHANGED concVars

\* fetch rejects (network failure)
FetchRejects ==
  /\ pc = "awaitFetch"
  /\ \E e \in Rejections :
       BackendFailure(IF e.isError THEN e.message ELSE "Backend analysis failed.")
  /\ UNCHANGED <<result, callDomain, job, analysis>>
  /\ UNCHANGED urlVars
  /\ UNCHANGED concVars

\* fetch resolves with a non-ok response: await response.text()
FetchNotOk ==
  /\ pc = "awaitFetch"
  /\ pc' = "awaitErrorText"
  /\ UNCHANGED <<state, result, error, progress, statusText, callDomain, job, analysis>>
  /\ UNCHANGED urlVars
  /\ UNCHANGED concVars

ErrorTextArrives ==
  /\ pc = "awaitErrorText"
  /\ \E errorText \in ErrorTexts :
       BackendFailure(IF errorText # "" THEN errorText ELSE "Backend analysis request failed.")
  /\ UNCHANGED <<result, callDomain, job, analysis>>
  /\ UNCHANGED urlVars
  /\ UNCHANGED concVars

progressLabel(domain) ==
  IF domain = "Manufacturing" THEN "Running RF-DETR-Seg manufacturing pipeline..."
  ELSE IF domain = "Infrastructure" THEN "Running ChangeFormer infrastructure pipeline..."
  ELSE "Running SSIM, RF-DETR-Seg, and Mask R-CNN pipelines..."

\* fetch resolves with an ok response: setProgress(60, ...), await response.json()
FetchOk ==
  /\ pc = "awaitFetch"
  /\ progress' = 60
  /\ statusText' = progressLabel(callDomain)
  /\ pc' = "awaitJson"
  /\ UNCHANGED <<state, result, error, callDomain, job, analysis>>
  /\ UNCHANGED urlVars
  /\ UNCHANGED concVars

\* mutant: only a job reported as failed is refused
JobIncompleteOnlyFailed(j) == j.status = "failed"

\* job.status !== 'completed'
JobIncomplete(j) == j.status # "completed"

\* job.error?.message || 'Analysis job failed on the backend.'
JobErrorMessage(j) ==
  StrOr(IF j.error = None THEN None ELSE j.error[1].message,
        "Analysis job failed on the backend.")

\* response.json() resolves with a job that did not complete: analyzeWithBackend throws
JobArrivesIncomplete ==
  /\ pc = "awaitJson"
  /\ \E j \in JobDocsFor(callDomain) :
       /\ JobIncomplete(j)
       /\ job' = Some(j)
       /\ BackendFailure(JobErrorMessage(j))
  /\ UNCHANGED <<result, callDomain, analysis>>
  /\ UNCHANGED urlVars
  /\ UNCHANGED concVars

\* response.json() resolves with a completed job: assembleAnalysisResult, then
\* processImages goes on to `await collectGeminiArtifacts`
JobArrivesCompleted ==
  /\ pc = "awaitJson"
  /\ \E j \in JobDocsFor(callDomain) :
       /\ ~JobIncomplete(j)
       /\ job' = Some(j)
       /\ IF assembleAnalysisResultThrows(j)
          THEN /\ BackendFailure("Cannot read properties of undefined")
               /\ UNCHANGED analysis
          ELSE /\ analysis' = Some(assembleAnalysisResult(j, callDomain))
               /\ progress' = 92
               /\ statusText' = "Gemini drafting inspection report..."
               /\ pc' = "awaitGemini"
               /\ UNCHANGED <<state, error>>
  /\ UNCHANGED <<result, callDomain>>
  /\ UNCHANGED urlVars
  /\ UNCHANGED concVars

\* mutant: the Gemini report's changes replace the ledger
GeminiResolvesReplacingLedger ==
  /\ pc = "awaitGemini"
  /\ \E report \in GeminiReports :
       result' = Some([analysis[1] EXCEPT !.summary = report.summary,
                                          !.recommendations = report.recommendations,
                                          !.changes = report.changes,
                                          !.llmChanges = Some(report.changes)])
  /\ progress' = 100
  /\ statusText' = "Done"
  /\ state' = "DONE"
  /\ pc' = "idle"
  /\ UNCHANGED <<error, callDomain, job, analysis>>
  /\ UNCHANGED urlVars
  /\ UNCHANGED concVars

\* the Gemini report resolves: summary and recommendations are replaced, changes kept
GeminiResolves ==
  /\ pc = "awaitGemini"
  /\ \E report \in GeminiReports :
       result' = Some([analysis[1] EXCEPT !.summary = report.summary,
                                          !.recommendations = report.recommendations,
                                          !.llmChanges = Some(report.changes)])
  /\ progress' = 100
  /\ statusText' = "Done"
  /\ state' = "DONE"
  /\ pc' = "idle"
  /\ UNCHANGED <<error, callDomain, job, analysis>>
  /\ UNCHANGED urlVars
  /\ UNCHANGED concVars

\* mutant: no inner catch, a failed Gemini report fails the call
GeminiRejectsFailingCall ==
  /\ pc = "awaitGemini"
  /\ BackendFailure("Gemini report generation failed")
  /\ UNCHANGED <<result, callDomain, job, analysis>>
  /\ UNCHANGED urlVars
  /\ UNCHANGED concVars

\* artifact collection or the Gemini report throws: the inner catch keeps the backend result
GeminiRejects ==
  /\ pc = "awaitGemini"
  /\ result' = analysis
  /\ progress' = 100
  /\ statusText' = "Done"
  /\ state' = "DONE"
  /\ pc' = "idle"
  /\ UNCHANGED <<error, callDomain, job, analysis>>
  /\ UNCHANGED urlVars
  /\ UNCHANGED concVars

\* reset()
Reset ==
  /\ pc = "idle"
  /\ state' = "IDLE"
  /\ result' = None
  /\ error' = None
  /\ progress' = 0
  /\ statusText' = ""
  /\ job' = None
  /\ analysis' = None
  /\ UNCHANGED <<pc, callDomain>>
  /\ UNCHANGED urlVars
  /\ UNCHANGED concVars

Next ==
  \/ ProcessTooFewImages
  \/ ProcessGeminiOnly
  \/ GeminiOnlyResolves
  \/ GeminiOnlyRejects
  \/ ProcessBackend
  \/ FetchRejects
  \/ FetchNotOk
  \/ ErrorTextArrives
  \/ FetchOk
  \/ JobArrivesIncomplete
  \/ JobArrivesCompleted
  \/ GeminiResolves
  \/ GeminiRejects
  \/ Reset

Spec == Init /\ [][Next]_vars

\* the continuation of the call in flight: what runs when its await settles
Continue ==
  \/ GeminiOnlyResolves
  \/ GeminiOnlyRejects
  \/ FetchRejects
  \/ FetchNotOk
  \/ ErrorTextArrives
  \/ FetchOk
  \/ JobArrivesIncomplete
  \/ JobArrivesCompleted
  \/ GeminiResolves
  \/ GeminiRejects

\* the positions at which processImages is suspended on an await
AwaitPositions == {"awaitFetch", "awaitErrorText", "awaitJson", "awaitGemini", "awaitGeminiOnly"}

\* the call in flight leaves the await it is suspended on; every step of
\* Continue is such a step, and no other action moves pc away from an await
Resumes ==
  /\ pc \in AwaitPositions
  /\ pc' \in AwaitPositions \cup {"idle"}
  /\ pc' # pc

\* every awaited external call (fetch, response.text, response.json, the Gemini
\* request) resolves or rejects, so a suspended call is eventually resumed
SpecLive == Init /\ [][Next]_vars /\ WF_pc(Resumes)

----------------------------------------------------------------------------
(* utils/artifacts.ts: resolveArtifactUrl *)

\* the characters String.prototype.trim removes, as far as the inputs use them
WhiteSpace == {" ", "\t"}

RECURSIVE TrimStart(_)
TrimStart(s) ==
  IF Len(s) > 0 /\ SubSeq(s, 1, 1) \in WhiteSpace
  THEN TrimStart(SubSeq(s, 2, Len(s))) ELSE s

RECURSIVE TrimEnd(_)
TrimEnd(s) ==
  IF Len(s) > 0 /\ SubSeq(s, Len(s), Len(s)) \in WhiteSpace
  THEN TrimEnd(SubSeq(s, 1, Len(s) - 1)) ELSE s

\* String.prototype.trim
Trim(s) == TrimEnd(TrimStart(s))

\* /^https?:/i.test(s)
TestHttpScheme(s) ==
  \/ (Len(s) >= 5 /\ ToLowerCase(SubSeq(s, 1, 5)) = "http:")
  \/ (Len(s) >= 6 /\ ToLowerCase(SubSeq(s, 1, 6)) = "https:")

\* index of the first "/" of s, 0 when there is none
IndexOfSlash(s) ==
  LET hits == {i \in 1..Len(s) : SubSeq(s, i, i) = "/"}
  IN IF hits = {} THEN 0 ELSE CHOOSE i \in hits : \A j \in hits : i <= j

\* String.prototype.split('/')
RECURSIVE SplitSlash(_)
SplitSlash(s) ==
  LET i == IndexOfSlash(s)
  IN IF i = 0 THEN <<s>>
     ELSE <<SubSeq(s, 1, i - 1)>> \o SplitSlash(SubSeq(s, i + 1, Len(s)))

\* Array.prototype.join('/')
RECURSIVE JoinSlash(_)
JoinSlash(parts) ==
  IF parts = <<>> THEN ""
  ELSE IF Len(parts) = 1 THEN parts[1]
  ELSE parts[1] \o "/" \o JoinSlash(Tail(parts))

\* the characters encodeURIComponent leaves alone
UriUnreserved ==
  "ABCDEFGHIJKLMNOPQRSTUVWXYZabcdefghijklmnopqrstuvwxyz0123456789-_.!~*'()"

\* encodeURIComponent of one character: the UTF-8 bytes as %XX
EncodeChar(c) ==
  IF Includes(UriUnreserved, c) THEN c
  ELSE CASE c = " " -> "%20"
         [] c = "\t" -> "%09"
         [] c = "#" -> "%23"
         [] c = "%" -> "%25"
         [] c = "&" -> "%26"
         [] c = "+" -> "%2B"
         [] c = "/" -> "%2F"
         [] c = ":" -> "%3A"
         [] c = "=" -> "%3D"
         [] c = "?" -> "%3F"
         [] c = "@" -> "%40"
         [] c = "é" -> "%C3%A9"

\* a UTF-16 surrogate code unit with no partner (U+D800 alone), which a
\* JavaScript string can hold; it is written here as the character U+FFFD
LoneSurrogate == "�"

\* encodeURIComponent raises URIError on a lone surrogate
encodeURIComponentThrows(s) == Includes(s, LoneSurrogate)

RECURSIVE encodeURIComponent(_)
encodeURIComponent(s) ==
  IF Len(s) = 0 THEN ""
  ELSE EncodeChar(SubSeq(s, 1, 1)) \o encodeURIComponent(SubSeq(s, 2, Len(s)))

RECURSIVE EncodeEach(_)
EncodeEach(parts) ==
  IF parts = <<>> THEN <<>>
  ELSE <<encodeURIComponent(Head(parts))>> \o EncodeEach(Tail(parts))

NonEmpty(part) == part # ""

\* path.split('/').filter(Boolean).map(encodeURIComponent).join('/')
encodeSegmentedPath(path) ==
  JoinSlash(EncodeEach(SelectSeq(SplitSlash(path), NonEmpty)))

\* some segment makes encodeURIComponent raise
encodeSegmentedPathThrows(path) ==
  \E i \in 1..Len(SplitSlash(path)) : encodeURIComponentThrows(SplitSlash(path)[i])

JobPathPrefix == "/data/jobs/"

\* what follows "/data/jobs/" at position i holds [^/]+ then "/" then .+
JobPathAt(s, i) ==
  /\ i + Len(JobPathPrefix) - 1 <= Len(s)
  /\ SubSeq(s, i, i + Len(JobPathPrefix) - 1) = JobPathPrefix
  /\ LET rest == SubSeq(s, i + Len(JobPathPrefix), Len(s))
         k == IndexOfSlash(rest)
     IN k >= 2 /\ Len(rest) > k

\* s.match(JOB_PATH_REGEX): None, or the captures of the leftmost match
JOB_PATH_REGEX(s) ==
  LET hits == {i \in 1..Len(s) : JobPathAt(s, i)}
  IN IF hits = {} THEN None
     ELSE LET i == CHOOSE h \in hits : \A j \in hits : h <= j
              rest == SubSeq(s, i + Len(JobPathPrefix), Len(s))
              k == IndexOfSlash(rest)
          IN Some([ jobId |-> SubSeq(rest, 1, k - 1),
                    relativePath |-> SubSeq(rest, k + 1, Len(rest)) ])

\* ORCHESTRATOR_BASE.replace(/\/$/, '')
BaseNoSlash ==
  IF Len(orchestratorBase) > 0
     /\ SubSeq(orchestratorBase, Len(orchestratorBase), Len(orchestratorBase)) = "/"
  THEN SubSeq(orchestratorBase, 1, Len(orchestratorBase) - 1)
  ELSE orchestratorBase

ArtifactEndpoint(jobId, encoded) ==
  BaseNoSlash \o "/api/jobs/" \o jobId \o "/artifacts/" \o encoded

\* mutant: the job-path pattern is tried before the http(s) test
resolveArtifactUrlJobPathFirst(ref, root) ==
  IF ref = None \/ ref = Some("") THEN None
  ELSE LET trimmed == Trim(ref[1])
           match == JOB_PATH_REGEX(trimmed)
           rootMatch == IF root = None THEN None ELSE JOB_PATH_REGEX(root[1])
       IN IF trimmed = "" THEN None
          ELSE IF match # None
            THEN Some(ArtifactEndpoint(match[1].jobId,
                                       encodeSegmentedPath(match[1].relativePath)))
          ELSE IF TestHttpScheme(trimmed) THEN Some(trimmed)
          ELSE IF StartsWith(trimmed, "//") THEN Some("https:" \o trimmed)
          ELSE IF rootMatch # None
            THEN Some(ArtifactEndpoint(rootMatch[1].jobId, encodeSegmentedPath(trimmed)))
          ELSE IF StartsWith(trimmed, "/") THEN Some(BaseNoSlash \o trimmed)
          ELSE Some(BaseNoSlash \o "/" \o encodeSegmentedPath(trimmed))

\* mutant: comparisonRoot is never consulted
resolveArtifactUrlIgnoreRoot(ref, root) ==
  IF ref = None \/ ref = Some("") THEN None
  ELSE LET trimmed == Trim(ref[1])
           match == JOB_PATH_REGEX(trimmed)
       IN IF trimmed = "" THEN None
          ELSE IF TestHttpScheme(trimmed) THEN Some(trimmed)
          ELSE IF StartsWith(trimmed, "//") THEN Some("https:" \o trimmed)
          ELSE IF match # None
            THEN Some(ArtifactEndpoint(match[1].jobId,
                                       encodeSegmentedPath(match[1].relativePath)))
          ELSE IF StartsWith(trimmed, "/") THEN Some(BaseNoSlash \o trimmed)
          ELSE Some(BaseNoSlash \o "/" \o encodeSegmentedPath(trimmed))

\* resolveArtifactUrl(artifact, comparisonRoot): None is null/undefined
resolveArtifactUrl(ref, root) ==
  IF ref = None \/ ref = Some("") THEN None
  ELSE LET trimmed == Trim(ref[1])
           match == JOB_PATH_REGEX(trimmed)
           rootMatch == IF root = None THEN None ELSE JOB_PATH_REGEX(root[1])
       IN IF trimmed = "" THEN None
          ELSE IF TestHttpScheme(trimmed) THEN Some(trimmed)
          ELSE IF StartsWith(trimmed, "//") THEN Some("https:" \o trimmed)
          ELSE IF match # None
            THEN Some(ArtifactEndpoint(match[1].jobId,
                                       encodeSegmentedPath(match[1].relativePath)))
          ELSE IF rootMatch # None
            THEN Some(ArtifactEndpoint(rootMatch[1].jobId, encodeSegmentedPath(trimmed)))
          ELSE IF StartsWith(trimmed, "/") THEN Some(BaseNoSlash \o trimmed)
          ELSE Some(BaseNoSlash \o "/" \o encodeSegmentedPath(trimmed))

\* resolveArtifactUrl raises: encodeSegmentedPath is reached with a path that
\* makes it raise
resolveArtifactUrlThrows(ref, root) ==
  /\ ref # None
  /\ LET trimmed == Trim(ref[1])
         match == JOB_PATH_REGEX(trimmed)
         rootMatch == IF root = None THEN None ELSE JOB_PATH_REGEX(root[1])
     IN /\ trimmed # ""
        /\ ~TestHttpScheme(trimmed)
        /\ ~StartsWith(trimmed, "//")
        /\ IF match # None THEN encodeSegmentedPathThrows(match[1].relativePath)
           ELSE IF rootMatch # None THEN encodeSegmentedPathThrows(trimmed)
           ELSE IF StartsWith(trimmed, "/") THEN FALSE
           ELSE encodeSegmentedPathThrows(trimmed)

\* the outcome of one call: an exception, or the returned URL or null
Outcome(ref, root) ==
  IF resolveArtifactUrlThrows(ref, root)
  THEN [called |-> TRUE, threw |-> TRUE, url |-> None, use |-> "none"]
  ELSE [called |-> TRUE, threw |-> FALSE, url |-> resolveArtifactUrl(ref, root), use |-> "none"]

\* import.meta.env.VITE_ORCHESTRATOR_URL || 'http://localhost:8000'
OrchestratorBases == {"http://localhost:8000", "https://orchestrator.example/"}

\* artifact references as the orchestrator's stage summaries and timeline
\* entries carry them, and as a caller may pass them
ArtifactRefs ==
  { None, Some(""), Some("   "),
    Some("https://cdn.example/data/jobs/job-7/overlay.png"),
    Some("HTTP://host/a b.png"),
    Some(" http://host/x.png "),
    Some("https://cdn.example/roi.png "),
    Some("//cdn.example/data/jobs/job-7/x.png"),
    Some("/data/jobs/job-7/stages/mask_rcnn/overlay.png"),
    Some("/data/jobs/job-7/stages/a b.png"),
    Some("/data/jobs/job-7//x.png"),
    Some("/data/jobs/job-7"),
    Some("/data/jobs//x.png"),
    Some("/mnt/data/jobs/job-7/diff#1.png"),
    Some("\t/data/jobs/job-7/roi.png "),
    Some("stages/mask_rcnn/overlay.png"),
    Some("/static/x.png"),
    Some("a b/c?v=1.png"),
    Some("ftp://host/x.png"),
    Some("/static/a b.png"),
    Some("plans/été 1.png"),
    Some("/data/jobs/job 7/x.png"),
    Some("stages/" \o LoneSurrogate \o ".png"),
    Some("https://cdn.example/" \o LoneSurrogate \o ".png") }

ComparisonRoots ==
  { None, Some(""), Some("/data/jobs/job-42/timeline/frame_02"),
    Some("/data/jobs/job-7/timeline/frame_01"),
    Some("/data/jobs/job-42"), Some("/tmp/other") }

UrlInit ==
  /\ HookInit
  /\ orchestratorBase \in OrchestratorBases
  /\ artifact \in ArtifactRefs
  /\ comparisonRoot \in ComparisonRoots
  /\ resolved = NotCalled
  /\ ConcIdle

\* a caller resolves the reference
Resolve ==
  /\ ~resolved.called
  /\ resolved' = Outcome(artifact, comparisonRoot)
  /\ UNCHANGED <<orchestratorBase, artifact, comparisonRoot>>
  /\ UNCHANGED hookVars
  /\ UNCHANGED concVars

\* a caller resolves a URL that resolveArtifactUrl returned
ResolveAgain ==
  /\ resolved.called
  /\ resolved.url # None
  /\ artifact' = resolved.url
  /\ resolved' = Outcome(artifact', comparisonRoot)
  /\ UNCHANGED <<orchestratorBase, comparisonRoot>>
  /\ UNCHANGED hookVars
  /\ UNCHANGED concVars

\* the loop body of collectGeminiArtifacts after the call returned: a null
\* result skips the source, a URL is fetched
UseResolved ==
  /\ resolved.called
  /\ ~resolved.threw
  /\ resolved.use = "none"
  /\ resolved' = [resolved EXCEPT !.use = IF resolved.url = None THEN "omitted" ELSE "fetched"]
  /\ UNCHANGED <<orchestratorBase, artifact, comparisonRoot>>
  /\ UNCHANGED hookVars
  /\ UNCHANGED concVars

UrlNext ==
  \/ Resolve
  \/ ResolveAgain
  \/ UseResolved

SpecUrl == UrlInit /\ [][UrlNext]_vars

----------------------------------------------------------------------------
(* useVisionProcessor with overlapping calls.  processImages and reset are  *)
(* plain callbacks over the same useState setters: nothing cancels a call   *)
(* in flight, and each continuation writes the hook's state when its await  *)
(* settles.  Call i stands at calls[i].pc; the job the orchestrator creates *)
(* for it is "job-i".  The job document is abstracted to its jobId here.    *)

ConcDomains == {"F1", "QA"}

\* what analyzeWithBackend returns to call i
BackendResultOf(i) ==
  [ summary |-> "No major deltas found for F1 mode. Alignment + SSIM agree with baseline.",
    changes |-> <<>>,
    recommendations |-> <<"Use backend artifacts for engineering deep dives or export packages.">>,
    isDemoMode |-> FALSE,
    jobId |-> "job-" \o ToString(i),
    timeline |-> None,
    llmChanges |-> None ]

\* what analyzeImagesWithGemini returns to the Gemini-only call i
GeminiResultOf(i) ==
  [ summary |-> "Gemini inspection report",
    changes |-> <<>>,
    recommendations |-> <<>>,
    isDemoMode |-> FALSE,
    jobId |-> "gemini-" \o ToString(i),
    timeline |-> None,
    llmChanges |-> None ]

CallMoves(i, to) == calls' = [calls EXCEPT ![i].pc = to]

\* processImages is called with two images or more, whatever earlier calls do
StartCall ==
  \E i \in 1..MaxCalls, domain \in ConcDomains :
    /\ calls[i].pc = "unstarted"
    /\ \A j \in 1..(i - 1) : calls[j].pc # "unstarted"
    /\ result' = None
    /\ error' = None
    /\ IF shouldUseBackend(domain)
       THEN /\ state' = "ALIGNING"
            /\ progress' = 15
            /\ statusText' = "Uploading ordered frames to backend orchestrator..."
            /\ calls' = [calls EXCEPT ![i] = [pc |-> "awaitFetch", domain |-> domain]]
       ELSE /\ state' = "SUMMARIZING"
            /\ progress' = 5
            /\ statusText' = "Routing frames to Gemini-only analysis for " \o domain \o "..."
            /\ calls' = [calls EXCEPT ![i] = [pc |-> "awaitGeminiOnly", domain |-> domain]]
    /\ lastCommand' = [kind |-> "start", call |-> i]
    /\ UNCHANGED <<pc, callDomain, job, analysis>>
    /\ UNCHANGED urlVars

\* reset(), whatever the calls in flight do
ResetAnytime ==
  /\ state' = "IDLE"
  /\ result' = None
  /\ error' = None
  /\ progress' = 0
  /\ statusText' = ""
  /\ lastCommand' = [kind |-> "reset", call |-> 0]
  /\ UNCHANGED <<pc, callDomain, job, analysis, calls>>
  /\ UNCHANGED urlVars

\* call i: fetch resolved with an ok response
CallFetchOk ==
  \E i \in 1..MaxCalls :
    /\ calls[i].pc = "awaitFetch"
    /\ progress' = 60
    /\ statusText' = progressLabel(calls[i].domain)
    /\ CallMoves(i, "awaitJson")
    /\ UNCHANGED <<state, result, error, pc, callDomain, job, analysis, lastCommand>>
    /\ UNCHANGED urlVars

\* call i: analyzeWithBackend threw (fetch failed, or the job did not complete)
CallBackendFails ==
  \E i \in 1..MaxCalls :
    /\ calls[i].pc \in {"awaitFetch", "awaitJson"}
    /\ error' = Some("Analysis job failed on the backend.")
    /\ state' = "ERROR"
    /\ progress' = 0
    /\ statusText' = ""
    /\ CallMoves(i, "returned")
    /\ UNCHANGED <<result, pc, callDomain, job, analysis, lastCommand>>
    /\ UNCHANGED urlVars

\* call i: analyzeWithBackend returned; the Gemini report is requested
CallBackendReturns ==
  \E i \in 1..MaxCalls :
    /\ calls[i].pc = "awaitJson"
    /\ progress' = 92
    /\ statusText' = "Gemini drafting inspection report..."
    /\ CallMoves(i, "awaitGemini")
    /\ UNCHANGED <<state, result, error, pc, callDomain, job, analysis, lastCommand>>
    /\ UNCHANGED urlVars

\* call i: the Gemini report settled either way; the call stores its result
CallFinishes ==
  \E i \in 1..MaxCalls :
    /\ calls[i].pc = "awaitGemini"
    /\ progress' = 100
    /\ statusText' = "Done"
    /\ result' = Some(BackendResultOf(i))
    /\ state' = "DONE"
    /\ CallMoves(i, "returned")
    /\ UNCHANGED <<error, pc, callDomain, job, analysis, lastCommand>>
    /\ UNCHANGED urlVars

\* Gemini-only call i: the analysis resolved
CallGeminiOnlyResolves ==
  \E i \in 1..MaxCalls :
    /\ calls[i].pc = "awaitGeminiOnly"
    /\ progress' = 100
    /\ statusText' = "Done"
    /\ result' = Some(GeminiResultOf(i))
    /\ state' = "DONE"
    /\ CallMoves(i, "returned")
    /\ UNCHANGED <<error, pc, callDomain, job, analysis, lastCommand>>
    /\ UNCHANGED urlVars

\* Gemini-only call i: the analysis rejected
CallGeminiOnlyRejects ==
  \E i \in 1..MaxCalls, e \in Rejections :
    /\ calls[i].pc = "awaitGeminiOnly"
    /\ error' = Some(parseGeminiError(e))
    /\ state' = "ERROR"
    /\ progress' = 0
    /\ statusText' = ""
    /\ CallMoves(i, "returned")
    /\ UNCHANGED <<result, pc, callDomain, job, analysis, lastCommand>>
    /\ UNCHANGED urlVars

ConcNext ==
  \/ StartCall
  \/ ResetAnytime
  \/ CallFetchOk
  \/ CallBackendFails
  \/ CallBackendReturns
  \/ CallFinishes
  \/ CallGeminiOnlyResolves
  \/ CallGeminiOnlyRejects

SpecConc == Init /\ [][ConcNext]_vars

----------------------------------------------------------------------------
(* Properties *)

\* analyzeWithBackend returned: analysis holds assembleAnalysisResult(job, callDomain)
Assembled == analysis # None

TheJob == job[1]
Changes == analysis[1].changes
JobTimeline == OrElse(TheJob.timeline, <<>>)
JobMode == OrElse(TheJob.comparisonMode, "baseline")

\* the result's changes come from the per-pair timeline (they carry a comparisonRef)
TimelineDerived == Assembled /\ \E i \in 1..Len(Changes) : Changes[i].comparisonRef # None
\* the result's changes come from the job-level pipeline
FallbackDerived == Assembled /\ \E i \in 1..Len(Changes) : Changes[i].comparisonRef = None

EntryPipeline(entry) == OrElse(entry.pipeline, EmptyPipeline)

\* C1: in every assembled result the Change ids are pairwise distinct, on the
\* timeline path and on the job-level fallback path.
C1_ChangeIdsDistinct ==
  Assembled =>
    \A i, k \in 1..Len(Changes) : i # k => Changes[i].id # Changes[k].id

\* C2: a job whose status is not "completed" produces no AnalysisResult and no
\* Change; the call has ended, the hook shows ERROR with an error message and a
\* null result (IDLE only after a later reset).
C2_IncompleteJobFails ==
  (job # None /\ TheJob.status # "completed") =>
    /\ analysis = None
    /\ result = None
    /\ pc = "idle"
    /\ state \in {"ERROR", "IDLE"}
    /\ (state = "ERROR" => error # None)

C2_Witness ==
  /\ job # None
  /\ TheJob.status = "running"
  /\ state = "ERROR"
  /\ error = Some("mask_rcnn stage crashed")
  /\ result = None

\* C3: the result's changes are exactly the per-pair timeline changes when some
\* pair yields a Change, exactly the job-level changes when no pair does, and
\* never a mixture of timeline-derived and job-level changes.
C3_TimelineOrFallback ==
  Assembled =>
    LET timelineChanges == collectTimelineChanges(TheJob)
    IN /\ Len(timelineChanges) > 0 => Changes = timelineChanges
       /\ Len(timelineChanges) = 0 => Changes = fallbackChangesOf(TheJob)
       /\ ~(TimelineDerived /\ FallbackDerived)

C3_Witness ==
  /\ Assembled
  /\ Len(JobTimeline) > 0
  /\ Len(collectTimelineChanges(TheJob)) = 0
  /\ Len(Changes) > 0
  /\ FallbackDerived

\* one timeline entry with every detector stage but `name` replaced by `other`
OnlyStage(entry, name, other) ==
  [entry EXCEPT !.pipeline =
     Some([n \in DOMAIN EntryPipeline(entry) |->
             IF n = name THEN EntryPipeline(entry)[n] ELSE other])]

\* the changes of one entry, each detector's computed with the other stages replaced
IsolatedEntryChanges(entry, other) ==
  IF entry.pipeline = None THEN <<>>
  ELSE EntryChanges(OnlyStage(entry, "pcb_cd", other), JobMode)
       \o EntryChanges(OnlyStage(entry, "object_diff", other), JobMode)
       \o EntryChanges(OnlyStage(entry, "mask_rcnn", other), JobMode)
       \o EntryChanges(OnlyStage(entry, "changeformer_cd", other), JobMode)

\* C4: for a completed job assembleAnalysisResult never raises, whichever
\* optional fields are absent, and the changes a timeline pair derives from one
\* detector's stage are the same whether the other stages are present, absent
\* or without a summary.
C4_NeverRaisesAndIndependent ==
  (job # None /\ TheJob.status = "completed") =>
    /\ Assembled
    /\ \A other \in {None, BareStage} :
         collectTimelineChanges(TheJob)
           = Flatten([i \in 1..Len(JobTimeline) |-> IsolatedEntryChanges(JobTimeline[i], other)])

C4_Witness ==
  /\ Assembled
  /\ Len(JobTimeline) = 1
  /\ JobTimeline[1].pipeline # None
  /\ EntryPipeline(JobTimeline[1]).object_diff = BareStage
  /\ EntryPipeline(JobTimeline[1]).changeformer_cd = None
  /\ \E i \in 1..Len(DetectionsOf(EntryPipeline(JobTimeline[1]).mask_rcnn)) :
       DetectionsOf(EntryPipeline(JobTimeline[1]).mask_rcnn)[i].score = Some(9000)
  /\ Len(RegionsOf(EntryPipeline(JobTimeline[1]).pcb_cd)) = 2
  /\ Len(Changes) = 3

\* the mask detections of the path the result was built from
UsedDetections ==
  IF TimelineDerived
  THEN Flatten([i \in 1..Len(JobTimeline) |->
                  DetectionsOf(EntryPipeline(JobTimeline[i]).mask_rcnn)])
  ELSE DetectionsOf(OrElse(TheJob.pipeline, EmptyPipeline).mask_rcnn)

PassingDetections ==
  SelectSeq(UsedDetections, LAMBDA det : det.score # None /\ det.score[1] >= 8500)

MaskChanges == SelectSeq(Changes, LAMBDA c : StartsWith(c.id, "mask-"))

\* C5: the mask builder emits exactly one Change per detection whose score is
\* at least 0.85, in order, and none for a lower or missing score, on the
\* timeline path and on the fallback path.
C5_MaskGate ==
  Assembled =>
    /\ Len(MaskChanges) = Len(PassingDetections)
    /\ \A i \in 1..Len(MaskChanges) :
         /\ MaskChanges[i].confidence = PassingDetections[i].score[1]
         /\ MaskChanges[i].impact = "Medium"

C5_Witness ==
  /\ Assembled
  /\ Len(UsedDetections) = 2
  /\ UsedDetections[1].score = Some(8499)
  /\ UsedDetections[2].score = Some(8500)
  /\ Len(MaskChanges) = 1
  /\ MaskChanges[1].confidence = 8500

\* a rational <<n, d>> within [0, 1]
InUnit(r) == r[2] > 0 /\ 0 <= r[1] /\ r[1] <= r[2]

\* C6: in every assembled result every Change.box has 4 values within [0,1].
C6_BoxesInUnitSquare ==
  Assembled =>
    \A i \in 1..Len(Changes) :
      /\ Len(Changes[i].box) = 4
      /\ \A k \in 1..4 : InUnit(Changes[i].box[k])

\* C7 as claimed: a timeline change built from a region that carries its own id
\* keeps that id, every other one is "<prefix>-f<afterIndex>-<localIndex>".
C7_RegionIdKept ==
  TimelineDerived =>
    \A i \in 1..Len(JobTimeline) :
      LET entry == JobTimeline[i]
          regions == RegionsOf(EntryPipeline(entry).pcb_cd)
          entryChanges == EntryChanges(entry, JobMode)
      IN \A k \in 1..Len(regions) :
           entryChanges[k].id =
             StrOr(regions[k].id, "pcb-f" \o ToString(entry.afterIndex) \o "-" \o ToString(k - 1))

RekeyedIds(prefix, afterIndex, n) ==
  [k \in 1..n |-> prefix \o "-f" \o ToString(afterIndex) \o "-" \o ToString(k - 1)]

ExpectedEntryIds(entry) ==
  LET pl == EntryPipeline(entry)
      a == entry.afterIndex
      passing == {k \in 1..Len(DetectionsOf(pl.mask_rcnn)) :
                    LET det == DetectionsOf(pl.mask_rcnn)[k]
                    IN det.score # None /\ det.score[1] >= 8500}
      drift == StageSummary(pl.changeformer_cd)
      driftRegions == IF drift = None THEN 0 ELSE Len(OrElse(drift[1].regions, <<>>))
      driftChanges == IF driftRegions > 0 THEN driftRegions
                      ELSE IF drift # None /\ OrElse(drift[1].coverage, 0) > 0 THEN 1 ELSE 0
  IN RekeyedIds("pcb", a, Len(RegionsOf(pl.pcb_cd)))
     \o RekeyedIds("RF-DETR-Seg", a, Len(OrElse(PairedOf(pl.object_diff), <<>>)))
     \o RekeyedIds("mask", a, Cardinality(passing))
     \o RekeyedIds("changeformer", a, driftChanges)

\* C7 (amended): every timeline-derived Change is re-keyed to
\* "<prefix>-f<afterIndex>-<localIndex>", localIndex being its position in the
\* builder's output for that pair; a region's own id is overwritten too.
C7_AllRekeyed ==
  TimelineDerived =>
    [i \in 1..Len(Changes) |-> Changes[i].id]
      = Flatten([i \in 1..Len(JobTimeline) |-> ExpectedEntryIds(JobTimeline[i])])

C7_Witness ==
  /\ TimelineDerived
  /\ Len(JobTimeline) = 1
  /\ Len(RegionsOf(EntryPipeline(JobTimeline[1]).pcb_cd)) = 1
  /\ RegionsOf(EntryPipeline(JobTimeline[1]).pcb_cd)[1].id = Some("region-0")
  /\ Changes[1].id = "pcb-f1-0"
  /\ \E i \in 1..Len(Changes) : Changes[i].id = "mask-f1-0" /\ Changes[i].confidence = 9000
  /\ Len(DetectionsOf(EntryPipeline(JobTimeline[1]).mask_rcnn)) = 2
  /\ DetectionsOf(EntryPipeline(JobTimeline[1]).mask_rcnn)[1].score = Some(5000)

\* C8: every comparisonRef's beforeIndex and afterIndex are the index of a frame
\* of result.timeline.frames.
C8_ComparisonRefNamesFrames ==
  Assembled =>
    \A i \in 1..Len(Changes) :
      Changes[i].comparisonRef # None =>
        LET ref == Changes[i].comparisonRef[1]
            frames == IF analysis[1].timeline = None THEN <<>>
                      ELSE analysis[1].timeline[1].frames
        IN /\ \E f \in 1..Len(frames) : frames[f].index = ref.beforeIndex
           /\ \E f \in 1..Len(frames) : frames[f].index = ref.afterIndex

\* C9: result.timeline.comparisons is ordered by ascending afterIndex.
C9_ComparisonsAscending ==
  (Assembled /\ analysis[1].timeline # None) =>
    LET comparisons == analysis[1].timeline[1].comparisons
    IN \A i, k \in 1..Len(comparisons) :
         i < k => comparisons[i].afterIndex <= comparisons[k].afterIndex

\* C10 as claimed: with N = afterIndex + 1 the label is "Frame N vs Baseline" in
\* baseline mode and "Frame N vs Frame N-1" in consecutive mode, for every pair.
C10_LabelNamesPredecessor ==
  Assembled =>
    \A i \in 1..Len(Changes) :
      Changes[i].comparisonRef # None =>
        LET ref == Changes[i].comparisonRef[1]
        IN ref.label =
             IF JobMode = "consecutive"
             THEN "Frame " \o ToString(ref.afterIndex + 1) \o " vs Frame " \o ToString(ref.afterIndex)
             ELSE "Frame " \o ToString(ref.afterIndex + 1) \o " vs Baseline"

\* C10 (amended): the label is "Frame N vs Baseline" in baseline mode (also when
\* comparisonMode is absent) and "Frame N vs Frame M" in consecutive mode, with
\* N = afterIndex + 1 and M = beforeIndex + 1 of the pair the change belongs to.
C10_LabelNamesBeforeFrame ==
  Assembled =>
    \A i \in 1..Len(Changes) :
      Changes[i].comparisonRef # None =>
        LET ref == Changes[i].comparisonRef[1]
        IN /\ \E e \in 1..Len(JobTimeline) :
                /\ JobTimeline[e].afterIndex = ref.afterIndex
                /\ JobTimeline[e].beforeIndex = ref.beforeIndex
           /\ ref.label =
                IF TheJob.comparisonMode = Some("consecutive")
                THEN "Frame " \o ToString(ref.afterIndex + 1) \o " vs Frame "
                     \o ToString(ref.beforeIndex + 1)
                ELSE "Frame " \o ToString(ref.afterIndex + 1) \o " vs Baseline"

C10_Witness ==
  /\ Assembled
  /\ TheJob.comparisonMode = Some("consecutive")
  /\ \E i \in 1..Len(Changes) :
       /\ Changes[i].comparisonRef # None
       /\ Changes[i].comparisonRef[1].beforeIndex = 0
       /\ Changes[i].comparisonRef[1].afterIndex = 2
       /\ Changes[i].comparisonRef[1].label = "Frame 3 vs Frame 1"

\* the pipelines of the path the result was built from: one per timeline pair,
\* or the job-level one
UsedPipelines ==
  IF TimelineDerived THEN [i \in 1..Len(JobTimeline) |-> EntryPipeline(JobTimeline[i])]
  ELSE <<OrElse(TheJob.pipeline, EmptyPipeline)>>

UsedPairs ==
  Flatten([i \in 1..Len(UsedPipelines) |-> OrElse(PairedOf(UsedPipelines[i].object_diff), <<>>)])

UsedRegions ==
  Flatten([i \in 1..Len(UsedPipelines) |-> RegionsOf(UsedPipelines[i].pcb_cd)])

\* the changes of each builder, told apart by what only that builder writes
YoloChanges == SelectSeq(Changes, LAMBDA c : c.changeType = "Structural")
PcbChanges == SelectSeq(Changes, LAMBDA c : StartsWith(c.description, "RF-DETR-Seg region "))
DriftChanges == SelectSeq(Changes, LAMBDA c : c.changeType = "Spatial")

EntryPairs(entry) == OrElse(PairedOf(EntryPipeline(entry).object_diff), <<>>)

\* a three-frame consecutive job: pair (0,1) reports only unchanged components,
\* pair (1,2) exactly one component, a changed one, and no other detector ran
ScenarioA ==
  /\ Assembled
  /\ TheJob.comparisonMode = Some("consecutive")
  /\ Len(OrElse(TheJob.frames, <<>>)) = 3
  /\ Len(JobTimeline) = 2
  /\ JobTimeline[1].beforeIndex = 0 /\ JobTimeline[1].afterIndex = 1
  /\ JobTimeline[2].beforeIndex = 1 /\ JobTimeline[2].afterIndex = 2
  /\ \A k \in 1..Len(EntryPairs(JobTimeline[1])) :
       EntryPairs(JobTimeline[1])[k].changed = Some(FALSE)
  /\ Len(EntryPairs(JobTimeline[2])) = 1
  /\ EntryPairs(JobTimeline[2])[1].changed = Some(TRUE)
  /\ \A i \in 1..2, n \in {"mask_rcnn", "pcb_cd", "changeformer_cd"} :
       EntryPipeline(JobTimeline[i])[n] = None

\* C11: for a three-frame consecutive job whose pair (0,1) reports only
\* unchanged components and whose pair (1,2) reports one changed component,
\* the result holds exactly one Change; it names "Frame 3 vs Frame 2" and has
\* impact High and criticality 7.
C11_ScenarioAOneChange ==
  ScenarioA =>
    /\ Len(Changes) = 1
    /\ Includes(Changes[1].description, "Frame 3 vs Frame 2")
    /\ Changes[1].impact = "High"
    /\ Changes[1].criticality = 7

\* the labels the defect-region builder looks for, as the specification lists them
ForcedHighTokens == {"open_circuit", "short", "spur", "spurious_copper"}
SecondaryTokens == {"missing_hole", "mouse_bite"}

RegionLabel(region) == ToLowerCase(StrOr(region.label, StrOr(region.id, "")))
MatchesAny(region, tokens) ==
  LET label == RegionLabel(region) IN \E t \in tokens : Includes(label, t)

\* the impact tier of an area ratio given in units of 1/10000
AreaTier(areaRatio) ==
  IF areaRatio # None /\ areaRatio[1] > 200 THEN "High"
  ELSE IF areaRatio # None /\ areaRatio[1] > 80 THEN "Medium"
  ELSE "Low"

C13_SecondaryForcedMedium ==
  Assembled =>
    \A k \in 1..Len(UsedRegions) :
      /\ MatchesAny(UsedRegions[k], ForcedHighTokens) => PcbChanges[k].impact = "High"
      /\ (MatchesAny(UsedRegions[k], SecondaryTokens)
            /\ ~MatchesAny(UsedRegions[k], ForcedHighTokens))
           => PcbChanges[k].impact = "Medium"

\* C13 (amended): a label matching a token of the critical list gives impact
\* High whatever the areaRatio; a label matching only a token of the secondary
\* list gives High when areaRatio > 0.02 and Medium otherwise, so it is never
\* Low.
C13_SecondaryAtLeastMedium ==
  Assembled =>
    LET regions == UsedRegions
        pcb == PcbChanges
    IN /\ Len(pcb) = Len(regions)
       /\ \A k \in 1..Len(pcb) :
            LET critical == MatchesAny(regions[k], ForcedHighTokens)
            IN /\ critical => pcb[k].impact = "High"
               /\ (~critical /\ MatchesAny(regions[k], SecondaryTokens))
                    => pcb[k].impact =
                         (IF AreaTier(regions[k].areaRatio) = "High" THEN "High" ELSE "Medium")

C13_Witness ==
  /\ Assembled
  /\ Len(UsedRegions) = 1
  /\ UsedRegions[1].label = Some("mouse_bite")
  /\ UsedRegions[1].areaRatio = Some(300)
  /\ Len(PcbChanges) = 1
  /\ PcbChanges[1].impact = "High"

\* what the structural-drift summary of one pipeline is expected to yield: one
\* "region" per region, else one "aggregate" for a positive coverage, else nothing
ExpectedDriftKinds(pl) ==
  LET summary == StageSummary(pl.changeformer_cd)
      regions == IF summary = None THEN <<>> ELSE OrElse(summary[1].regions, <<>>)
  IN IF Len(regions) > 0 THEN [k \in 1..Len(regions) |-> "region"]
     ELSE IF summary # None /\ summary[1].coverage # None /\ summary[1].coverage[1] > 0
     THEN <<"aggregate">>
     ELSE <<>>

IsAggregate(change) == StartsWith(change.description, "ChangeFormer coverage ")

\* C14: the structural-drift builder emits one Change per region and no
\* aggregate when the summary has regions, exactly one aggregate Change when it
\* has none and coverage > 0, and no Change when it has none and coverage is
\* <= 0 or missing, or when the summary is absent.
C14_DriftModesExclusive ==
  Assembled =>
    LET expected == Flatten([i \in 1..Len(UsedPipelines) |-> ExpectedDriftKinds(UsedPipelines[i])])
    IN /\ Len(DriftChanges) = Len(expected)
       /\ \A k \in 1..Len(DriftChanges) :
            IsAggregate(DriftChanges[k]) <=> expected[k] = "aggregate"

C14_Witness ==
  /\ Assembled
  /\ Len(UsedPipelines) = 1
  /\ StageSummary(UsedPipelines[1].changeformer_cd) # None
  /\ Len(OrElse(StageSummary(UsedPipelines[1].changeformer_cd)[1].regions, <<>>)) = 2
  /\ StageSummary(UsedPipelines[1].changeformer_cd)[1].coverage = Some(30100)
  /\ Len(DriftChanges) = 2
  /\ ~IsAggregate(DriftChanges[1])
  /\ ~IsAggregate(DriftChanges[2])

\* the coverages (in millionths) of the summaries that yield an aggregate Change
AggregateCoverages ==
  Flatten([i \in 1..Len(UsedPipelines) |->
             IF ExpectedDriftKinds(UsedPipelines[i]) = <<"aggregate">>
             THEN <<StageSummary(UsedPipelines[i].changeformer_cd)[1].coverage[1]>>
             ELSE <<>>])

AggregateChanges == SelectSeq(DriftChanges, IsAggregate)

\* C15: the aggregate Change takes its impact from the coverage: above 3%
\* High, above 1% and at most 3% Medium, otherwise Low.
C15_AggregateTiersExact ==
  Assembled =>
    /\ Len(AggregateChanges) = Len(AggregateCoverages)
    /\ \A k \in 1..Len(AggregateChanges) :
         AggregateChanges[k].impact =
           (IF AggregateCoverages[k] > 30000 THEN "High"
            ELSE IF AggregateCoverages[k] > 10000 THEN "Medium" ELSE "Low")

\* C15 (amended): the aggregate Change takes its impact from the coverage
\* percentage rounded to two decimals: a rounded percentage above 3 gives High,
\* above 1 and at most 3 Medium, otherwise Low; the region thresholds (2% and
\* 0.8%) play no part.
C15_AggregateTiersRounded ==
  Assembled =>
    /\ Len(AggregateChanges) = Len(AggregateCoverages)
    /\ \A k \in 1..Len(AggregateChanges) :
         LET hundredths == (AggregateCoverages[k] + 50) \div 100
         IN AggregateChanges[k].impact =
              (IF hundredths > 300 THEN "High"
               ELSE IF hundredths > 100 THEN "Medium" ELSE "Low")

\* Scenario C: {coverage: 0.004, regions: []} yields one aggregate Change, Low
C15_Witness ==
  /\ Assembled
  /\ Len(UsedPipelines) = 1
  /\ StageSummary(UsedPipelines[1].changeformer_cd) # None
  /\ StageSummary(UsedPipelines[1].changeformer_cd)[1].regions = Some(<<>>)
  /\ StageSummary(UsedPipelines[1].changeformer_cd)[1].coverage = Some(4000)
  /\ Len(Changes) = 1
  /\ IsAggregate(Changes[1])
  /\ Changes[1].impact = "Low"

\* C16: the object-diff builder takes severity from the changed flag alone:
\* changed = true gives impact High, criticality 7, estimatedCost 5000 and one
\* red flag citing the SSIM value; changed = false or missing gives impact Low,
\* criticality 3, estimatedCost 0 and no red flag, whatever SSIM and confidence.
C16_SeverityFromChangedFlag ==
  Assembled =>
    /\ Len(YoloChanges) = Len(UsedPairs)
    /\ \A k \in 1..Len(YoloChanges) :
         IF UsedPairs[k].changed = Some(TRUE)
         THEN /\ YoloChanges[k].impact = "High"
              /\ YoloChanges[k].criticality = 7
              /\ YoloChanges[k].estimatedCost = 5000
              /\ Len(YoloChanges[k].redFlags) = 1
              /\ StartsWith(YoloChanges[k].redFlags[1], "SSIM delta ")
              /\ UsedPairs[k].ssim # None =>
                   YoloChanges[k].redFlags[1] = "SSIM delta " \o ToFixed3(UsedPairs[k].ssim[1])
         ELSE /\ YoloChanges[k].impact = "Low"
              /\ YoloChanges[k].criticality = 3
              /\ YoloChanges[k].estimatedCost = 0
              /\ YoloChanges[k].redFlags = <<>>

C16_Witness ==
  /\ Assembled
  /\ Len(UsedPairs) = 1
  /\ UsedPairs[1].changed = Some(TRUE)
  /\ UsedPairs[1].ssim = Some(987)
  /\ UsedPairs[1].confidence = Some(9900)
  /\ Len(YoloChanges) = 1
  /\ YoloChanges[1].impact = "High"
  /\ YoloChanges[1].redFlags = <<"SSIM delta 0.987">>

\* C17: in every assembled result every Change.criticality is an integer
\* between 1 and 10, for every detector and every score, areaRatio and coverage.
C17_CriticalityInRange ==
  Assembled => \A k \in 1..Len(Changes) : Changes[k].criticality \in 1..10

C17_Witness ==
  /\ Assembled
  /\ Len(UsedDetections) = 2
  /\ UsedDetections[1].score = Some(8500)
  /\ UsedDetections[2].score = Some(12000)
  /\ Len(Changes) = 2
  /\ Changes[1].criticality = 9
  /\ Changes[2].criticality = 10

\* box and image size of every mask detection that passes the gate, and of every
\* paired component, on the path the result was built from
UsedMaskInputs ==
  Flatten([i \in 1..Len(UsedPipelines) |->
             LET stage == UsedPipelines[i].mask_rcnn
                 kept == SelectSeq(DetectionsOf(stage),
                                   LAMBDA det : det.score # None /\ det.score[1] >= 8500)
             IN [k \in 1..Len(kept) |-> [box |-> kept[k].bbox, size |-> StageImageSize(stage)]]])

UsedPairInputs ==
  Flatten([i \in 1..Len(UsedPipelines) |->
             LET stage == UsedPipelines[i].object_diff
                 pairs == OrElse(PairedOf(stage), <<>>)
             IN [k \in 1..Len(pairs) |-> [box |-> pairs[k].box_shared, size |-> StageImageSize(stage)]]])

\* an image size is absent, or has a positive width and height
ProperSize(size) == size = None \/ (size[1].width > 0 /\ size[1].height > 0)
DivisorW(size) == IF size = None THEN 1 ELSE size[1].width
DivisorH(size) == IF size = None THEN 1 ELSE size[1].height

ResultTimeline == analysis[1].timeline

EntryStage(entry, name) == EntryPipeline(entry)[name]

\* the string an artifact bundle holds under a key, "" when the bundle or the key is absent
Kept(bundle, key) == IF bundle = None THEN "" ELSE StrOr(bundle[1][key], "")

\* what one TimelineComparison keeps of its timeline entry
RetainsEntry(comparison, entry) ==
  /\ comparison.beforeIndex = entry.beforeIndex
  /\ comparison.afterIndex = entry.afterIndex
  /\ comparison.ssim = (IF StageSummary(EntryStage(entry, "alignment")) = None THEN None
                        ELSE StageSummary(EntryStage(entry, "alignment"))[1].ssim)
  /\ Kept(comparison.alignmentArtifacts, "overlay")
       = Kept(StageArtifacts(EntryStage(entry, "alignment")), "overlay")
  /\ Kept(comparison.objectDiffArtifacts, "overlay")
       = Kept(StageArtifacts(EntryStage(entry, "object_diff")), "overlay")
  /\ Kept(comparison.maskArtifacts, "overlay")
       = Kept(StageArtifacts(EntryStage(entry, "mask_rcnn")), "overlay")
  /\ Kept(comparison.pcbMaskArtifacts, "overlay")
       = Kept(StageArtifacts(EntryStage(entry, "pcb_cd")), "overlay")
  /\ Kept(comparison.changeformerArtifacts, "overlay")
       = Kept(StageArtifacts(EntryStage(entry, "changeformer_cd")), "overlay")
  /\ StageSummary(EntryStage(entry, "pcb_cd")) # None =>
       /\ comparison.pcbMaskArtifacts # None
       /\ comparison.pcbMaskArtifacts[1].summary = StageSummary(EntryStage(entry, "pcb_cd"))
  /\ StageSummary(EntryStage(entry, "changeformer_cd")) # None =>
       /\ comparison.changeformerArtifacts # None
       /\ comparison.changeformerArtifacts[1].summary
            = StageSummary(EntryStage(entry, "changeformer_cd"))

\* C19: buildTimelineSummary emits exactly one TimelineComparison per timeline
\* entry, and each keeps the entry's SSIM and every detector's artifact bundle
\* and summary the entry supplies, whether or not the pair produced a Change.
C19_ComparisonRetainsArtifacts ==
  (Assembled /\ Len(JobTimeline) > 0) =>
    /\ ResultTimeline # None
    /\ Len(ResultTimeline[1].comparisons) = Len(JobTimeline)
    /\ \A i \in 1..Len(JobTimeline) :
         RetainsEntry(ResultTimeline[1].comparisons[i], JobTimeline[i])

\* the job ids and relative paths of the sample references, each relative
\* path with its percent-encoded form
SampleJobIds == {"job-7", "job-42"}
SampleRelatives ==
  { <<"stages/mask_rcnn/overlay.png", "stages/mask_rcnn/overlay.png">>,
    <<"stages/a b.png", "stages/a%20b.png">>,
    <<"/x.png", "x.png">>,
    <<"diff#1.png", "diff%231.png">>,
    <<"roi.png", "roi.png">>,
    <<"overlay.png", "overlay.png">> }

\* ref is lead/data/jobs/<jobId>/<relative> and the outcome is the artifact
\* endpoint of that same job
RewrittenWithOwnJob(ref, leads) ==
  \A lead \in leads, jobId \in SampleJobIds, rel \in SampleRelatives :
    (ref = lead \o "/data/jobs/" \o jobId \o "/" \o rel[1])
      => resolved.url = Some(BaseNoSlash \o "/api/jobs/" \o jobId
                               \o "/artifacts/" \o rel[2])

BareReferences ==
  { <<"stages/mask_rcnn/overlay.png", "stages/mask_rcnn/overlay.png">>,
    <<"a b/c?v=1.png", "a%20b/c%3Fv%3D1.png">>,
    <<"plans/été 1.png", "plans/%C3%A9t%C3%A9%201.png">>,
    <<"/static/x.png", "static/x.png">>,
    <<"/static/a b.png", "static/a%20b.png">>,
    <<"/data/jobs/job-7", "data/jobs/job-7">> }

\* the sample roots of the form /data/jobs/<jobId>/..., each with its jobId
JobRoots ==
  { <<"/data/jobs/job-42/timeline/frame_02", "job-42">>,
    <<"/data/jobs/job-7/timeline/frame_01", "job-7">> }

\* C21: a reference that is not http(s), not protocol-relative and holds no
\* job-storage path, resolved under a comparisonRoot /data/jobs/<jobId>/...,
\* gives <apiBase>/api/jobs/<jobId>/artifacts/<reference> with the root's
\* jobId, the reference percent-encoded segment by segment; root
\* /data/jobs/job-42/timeline/frame_02 and stages/mask_rcnn/overlay.png give
\* <base>/api/jobs/job-42/artifacts/stages/mask_rcnn/overlay.png.
C21_RootRelative ==
  (resolved.called /\ artifact # None /\ comparisonRoot # None) =>
    \A bare \in BareReferences, root \in JobRoots :
      (Trim(artifact[1]) = bare[1] /\ comparisonRoot[1] = root[1])
        => /\ ~resolved.threw
           /\ resolved.url = Some(BaseNoSlash \o "/api/jobs/" \o root[2]
                                    \o "/artifacts/" \o bare[2])

C21_Witness ==
  /\ resolved.called
  /\ orchestratorBase = "http://localhost:8000"
  /\ artifact = Some("stages/mask_rcnn/overlay.png")
  /\ comparisonRoot = Some("/data/jobs/job-42/timeline/frame_02")
  /\ resolved.url = Some("http://localhost:8000/api/jobs/job-42/artifacts/stages/mask_rcnn/overlay.png")

\* the call returned a URL it built from a reference that is neither http(s)
\* nor protocol-relative
Rewritten ==
  /\ resolved.called
  /\ ~resolved.threw
  /\ resolved.url # None
  /\ ~TestHttpScheme(Trim(artifact[1]))
  /\ ~StartsWith(Trim(artifact[1]), "//")

\* C22: whenever resolveArtifactUrl rewrites a reference that is not http(s)
\* (job-storage pattern, comparisonRoot-relative, or directly under the API
\* base, with or without a leading slash), no blank and no non-ASCII character
\* of the reference appears unencoded in the returned URL.
C22_SegmentsEncoded ==
  Rewritten =>
    \A c \in {" ", "é"} : ~Includes(resolved.url[1], c)

\* C23: resolveArtifactUrl never throws, whatever the artifact and the
\* comparisonRoot; it returns null for a null, undefined, empty or
\* whitespace-only artifact; and a consumer that received null omits the
\* artifact.
C23_NeverThrows ==
  resolved.called =>
    /\ ~resolved.threw
    /\ (artifact = None \/ Trim(artifact[1]) = "") => resolved.url = None
    /\ (resolved.url = None /\ resolved.use # "none") => resolved.use = "omitted"

Recommendations == analysis[1].recommendations
Summary == analysis[1].summary

\* the number of Changes of the assembled result whose impact is High
HighCount == Cardinality({k \in 1..Len(Changes) : Changes[k].impact = "High"})

\* C24: the first recommendation reports the number N of Changes with impact
\* High when N > 0 and is the fixed no-high-impact sentence when N = 0; the
\* last recommendation is always the fixed backend-artifacts sentence; for a
\* domain other than Manufacturing and Infrastructure the summary reports the
\* same N.
C24_RecommendationsFromCounts ==
  Assembled =>
    LET n == HighCount
        recs == Recommendations
    IN /\ Len(recs) >= 2
       /\ recs[1] =
            (IF n > 0
             THEN "Prioritise inspection of " \o ToString(n)
                  \o " component(s) flagged by SSIM/RF-DETR-Seg."
             ELSE "No high-impact structural deltas detected; continue baseline monitoring.")
       /\ recs[Len(recs)] = "Use backend artifacts for engineering deep dives or export packages."
       /\ (callDomain \notin {"Manufacturing", "Infrastructure"}) =>
            Summary =
              (IF n > 0
               THEN "Detected " \o ToString(n) \o " structural changes in " \o callDomain \o " mode."
               ELSE "No major deltas found for " \o callDomain
                    \o " mode. Alignment + SSIM agree with baseline.")

\* an F1 result with a High and a lower change: the count is 1 of 2
C24_Witness ==
  /\ Assembled
  /\ callDomain = "F1"
  /\ Len(Changes) = 2
  /\ HighCount = 1
  /\ Recommendations[1] = "Prioritise inspection of 1 component(s) flagged by SSIM/RF-DETR-Seg."
  /\ Summary = "Detected 1 structural changes in F1 mode."

\* a processImages call finished through the backend path
BackendDone == state = "DONE" /\ analysis # None /\ result # None

\* C25: after processImages finishes through the backend path, result.changes
\* equals the changes the assembler returned, whether the Gemini report
\* succeeded, failed or returned other changes; what Gemini returned is stored
\* only as llmChanges.
C25_LedgerIndependentOfGemini ==
  BackendDone =>
    /\ result[1].changes = analysis[1].changes
    /\ \/ result[1].llmChanges = None
       \/ \E report \in GeminiReports : result[1].llmChanges = Some(report.changes)

\* Gemini returned a change of its own and the ledger kept the assembler's
C25_Witness ==
  /\ BackendDone
  /\ result[1].llmChanges # None
  /\ Len(result[1].llmChanges[1]) = 1
  /\ Len(result[1].changes) = 2
  /\ result[1].changes = analysis[1].changes
  /\ \A k \in 1..2 : result[1].changes[k].id # "llm-1"

\* Low < Medium < High
TierRank(impact) == IF impact = "High" THEN 3 ELSE IF impact = "Medium" THEN 2 ELSE 1

\* C26: for every defect region, whatever its label and areaRatio, the impact
\* of its Change is at least the tier the area thresholds alone assign, in the
\* order Low < Medium < High, and the criticality is 8 for High, 6 for Medium
\* and 3 for Low.
C26_OverrideNeverLowers ==
  Assembled =>
    LET regions == UsedRegions
        pcb == PcbChanges
    IN /\ Len(pcb) = Len(regions)
       /\ \A k \in 1..Len(pcb) :
            /\ TierRank(pcb[k].impact) >= TierRank(AreaTier(regions[k].areaRatio))
            /\ pcb[k].criticality =
                 (IF pcb[k].impact = "High" THEN 8
                  ELSE IF pcb[k].impact = "Medium" THEN 6 ELSE 3)

\* a small mouse_bite region: Low by area, raised to Medium by its label
C26_Witness ==
  /\ Assembled
  /\ Len(UsedRegions) = 1
  /\ UsedRegions[1].label = Some("mouse_bite")
  /\ UsedRegions[1].areaRatio = Some(10)
  /\ Len(PcbChanges) = 1
  /\ PcbChanges[1].impact = "Medium"
  /\ PcbChanges[1].criticality = 6

MaskRecommendation == "Review Mask R-CNN overlay for precise damage contours."

\* C27: the Mask R-CNN overlay recommendation appears in an assembled result
\* if and only if its changes hold at least one Change of the mask builder, on
\* the timeline path and on the job-level fallback path, also when every
\* fallback detection scores below 0.85.
C27_MaskRecommendationIffMaskChange ==
  Assembled =>
    ((\E i \in 1..Len(Recommendations) : Recommendations[i] = MaskRecommendation)
       <=> Len(MaskChanges) > 0)

\* C28: for domain Manufacturing, whenever the summary states that no
\* manufacturing anomalies were found the changes hold no defect-region
\* Change, and for domain Infrastructure, whenever the summary states no
\* structural drift the changes hold no structural-drift Change, also for a
\* job whose timeline pairs and top-level pipeline differ.
C28_SummaryConsistentWithLedger ==
  Assembled =>
    /\ (callDomain = "Manufacturing"
          /\ Summary = "RF-DETR-Seg reports no manufacturing anomalies versus baseline.")
         => Len(PcbChanges) = 0
    /\ (callDomain = "Infrastructure"
          /\ Summary = "ChangeFormer reports no structural drift versus baseline.")
         => Len(DriftChanges) = 0

\* the call that wrote the result shown
ResultOf(i) == result = Some(BackendResultOf(i)) \/ result = Some(GeminiResultOf(i))

\* C29: when reset() runs or a second processImages call starts while an
\* earlier call is still awaiting, the late completion of the earlier call
\* never overwrites the hook's state: after a reset the state stays IDLE with
\* result null until a new analysis is started, and a result shown belongs to
\* the most recently started call.
C29_LateCompletionIgnored ==
  /\ (lastCommand.kind = "reset") => (state = "IDLE" /\ result = None)
  /\ (lastCommand.kind = "start" /\ result # None) => ResultOf(lastCommand.call)

\* the step in which the call in flight returns
Settles == pc # "idle" /\ pc' = "idle"

\* C30: a processImages call made with two images or more, not interleaved
\* with another call, eventually settles in DONE or ERROR once every awaited
\* call resolves or rejects, and does not remain in ALIGNING or SUMMARIZING;
\* when it settles, DONE comes with a result, no error and progress 100, ERROR
\* with no result, an error and progress 0; and a failure of the Gemini report
\* step alone settles in DONE with the backend result. The first conjunct
\* says that an await which settles has a continuation to run.
C30_CallSettles ==
  /\ [](pc \in AwaitPositions => ENABLED Continue)
  /\ [](pc \in AwaitPositions => state \in {"ALIGNING", "SUMMARIZING"})
  /\ (pc # "idle") ~> (pc = "idle" /\ state \in {"DONE", "ERROR"})
  /\ [][Settles =>
          /\ state' \in {"DONE", "ERROR"}
          /\ (state' = "DONE") => (result' # None /\ error' = None /\ progress' = 100)
          /\ (state' = "ERROR") => (result' = None /\ error' # None /\ progress' = 0)
          /\ (pc = "awaitGemini") => (state' = "DONE" /\ result'[1].changes = analysis[1].changes
                                        /\ result'[1].jobId = analysis[1].jobId)]_vars

\* the Gemini report failed and the call settled in DONE with the backend result
C30_Witness ==
  /\ pc = "idle"
  /\ state = "DONE"
  /\ analysis # None
  /\ result = analysis
  /\ error = None
  /\ progress = 100

====
